---- MODULE Spec2Model ----
(***************************************************************************)
(* A model of the extraction-and-merge pipeline of src/scrapping.py.       *)
(*                                                                         *)
(* Text is modelled as a sequence of one-character strings, so that        *)
(* parsing, formatting and encoding are computed character by character.   *)
(* Python's None is the distinguished value None below; the empty string   *)
(* and the empty list are both the empty sequence (both are falsy).        *)
(*                                                                         *)
(* The specifications, at the end of the module:                           *)
(*   SpecNormalize  normalize_url applied to URLs and their variants       *)
(*   SpecDedup      the cross-source dedupe loop of scrape_businesses      *)
(*   SpecMerge      the merge of an enrichment into a record               *)
(*   SpecJsonLd     the JSON-LD loop of extract_from_html                  *)
(*   SpecProviders  get_all_google_maps_results with                       *)
(*                  get_google_maps_results, and get_google_search_results *)
(*   SpecPipeline   scrape_businesses from its call to its return, over    *)
(*                  the answers of the providers and of the fetched sites  *)
(*   SpecFetch      fetch_html_via_scrapingdog and fetch_html_direct over  *)
(*                  the responses of session.get                           *)
(*   SpecComponents extract_components over sequences of (text, label)     *)
(*   SpecName       clean_business_name over page titles and URLs          *)
(***************************************************************************)
EXTENDS Integers, Sequences, FiniteSets, TLC

VARIABLES
    \* normalize_url harness
    n_pc, n_url, n_alt, n_kind, n_out, n_again, n_alt_out,
    \* scrape_businesses: the cross-source dedupe loop
    d_pc, combined_tagged, d_i, seen_urls, filtered_tagged,
    \* scrape_businesses: the merge of an enrichment into a record
    m_pc, m_base, m_record, m_enrich,
    \* extract_from_html: the loop over the JSON-LD objects
    j_pc, ld_list, j_i, out,
    \* the providers: get_all_google_maps_results and get_google_maps_results
    \* (g_pc, the locals, the requests made and what each returned) and
    \* get_google_search_results (s_pc, the responses seen, the result)
    API_KEY, g_pc, initial_ll, ll, page, max_pages, all_results, results,
    maps_requests, maps_returns, m_responses,
    s_pc, s_responses, search_results,
    \* scrape_businesses (query_arg is its `query`, link_local its `link`,
    \* page_count its `page`)
    p_pc, query_arg, source, fetch, page_count, idx, search_filtered, link_local,
    all_data,
    raised,
    \* the fetchers: the function called, the response met, what it returned
    f_pc, f_fn, f_resp, f_text,
    \* extract_components: its argument and its result
    c_pc, c_pairs, c_out,
    \* clean_business_name: its arguments and its result
    t_pc, t_title, t_url, t_name

normVars == <<n_pc, n_url, n_alt, n_kind, n_out, n_again, n_alt_out>>
dedupVars == <<d_pc, combined_tagged, d_i, seen_urls, filtered_tagged>>

mergeVars == <<m_pc, m_base, m_record, m_enrich>>

jsonLdVars == <<j_pc, ld_list, j_i, out>>

provVars ==
    <<API_KEY, g_pc, initial_ll, ll, page, max_pages, all_results, results,
      maps_requests, maps_returns, m_responses, s_pc, s_responses, search_results>>

pipeVars ==
    <<p_pc, query_arg, source, fetch, page_count, idx, search_filtered, link_local,
      all_data, raised>>

fetchVars == <<f_pc, f_fn, f_resp, f_text>>

compVars == <<c_pc, c_pairs, c_out>>

nameVars == <<t_pc, t_title, t_url, t_name>>

fnVars == <<fetchVars, compVars, nameVars>>

vars == <<normVars, dedupVars, mergeVars, jsonLdVars, provVars, pipeVars, fnVars>>

\* What the steps of one part of the program leave alone
notNorm == <<dedupVars, mergeVars, jsonLdVars, provVars, pipeVars, fnVars>>
notDedup == <<normVars, mergeVars, jsonLdVars, provVars, pipeVars, fnVars>>
notMerge == <<normVars, dedupVars, jsonLdVars, provVars, pipeVars, fnVars>>
notJsonLd == <<normVars, dedupVars, mergeVars, provVars, pipeVars, fnVars>>
notProv == <<normVars, dedupVars, mergeVars, jsonLdVars, pipeVars, fnVars>>
harnessVars == <<normVars, mergeVars, jsonLdVars, fnVars>>

-----------------------------------------------------------------------------
(* Values and text                                                         *)

None == <<"<None>">>

\* Python truthiness of the values the model uses: None, "" and [] are falsy.
Truthy(v) == v # None /\ v # <<>>

\* Python's `a or b`.
Or(a, b) == IF Truthy(a) THEN a ELSE b

\* The printable ASCII characters, in code order from 32 (space) to 126
\* (code 96 has no string literal and is held by a placeholder).
AsciiChars ==
    << " ", "!", "\"", "#", "$", "%", "&", "'", "(", ")", "*", "+", ",", "-",
       ".", "/", "0", "1", "2", "3", "4", "5", "6", "7", "8", "9", ":", ";",
       "<", "=", ">", "?", "@", "A", "B", "C", "D", "E", "F", "G", "H", "I",
       "J", "K", "L", "M", "N", "O", "P", "Q", "R", "S", "T", "U", "V", "W",
       "X", "Y", "Z", "[", "\\", "]", "^", "_", "<backtick>", "a", "b", "c", "d", "e",
       "f", "g", "h", "i", "j", "k", "l", "m", "n", "o", "p", "q", "r", "s",
       "t", "u", "v", "w", "x", "y", "z", "{", "|", "}", "~" >>

UpperChars == {"A","B","C","D","E","F","G","H","I","J","K","L","M",
               "N","O","P","Q","R","S","T","U","V","W","X","Y","Z"}
LowerChars == {"a","b","c","d","e","f","g","h","i","j","k","l","m",
               "n","o","p","q","r","s","t","u","v","w","x","y","z"}
DigitChars == {"0","1","2","3","4","5","6","7","8","9"}

Ord(c) == 31 + (CHOOSE i \in 1..95 : AsciiChars[i] = c)

Chr(n) == AsciiChars[n - 31]

\* str.lower()
LowerChar(c) == IF c \in UpperChars THEN Chr(Ord(c) + 32) ELSE c
Lower(s) == [i \in 1..Len(s) |-> LowerChar(s[i])]

\* s[i:] and s[:i] with Python's 0-based bounds
From(s, i) == SubSeq(s, i + 1, Len(s))
Upto(s, i) == SubSeq(s, 1, i)

\* str.startswith / str.endswith
StartsWith(s, p) == Len(s) >= Len(p) /\ SubSeq(s, 1, Len(p)) = p
EndsWith(s, p) == Len(s) >= Len(p) /\ SubSeq(s, Len(s) - Len(p) + 1, Len(s)) = p

\* str.find(c) for a single character, as a 0-based index, -1 when absent
Find(s, c) ==
    IF \E i \in 1..Len(s) : s[i] = c
    THEN (CHOOSE i \in 1..Len(s) : s[i] = c /\ \A j \in 1..(i - 1) : s[j] # c) - 1
    ELSE -1

\* str.rfind(c)
RFind(s, c) ==
    IF \E i \in 1..Len(s) : s[i] = c
    THEN (CHOOSE i \in 1..Len(s) : s[i] = c /\ \A j \in (i + 1)..Len(s) : s[j] # c) - 1
    ELSE -1

\* The index of find(c, start), given r = s[start:].find(c)
Shifted(r, start) == IF r < 0 THEN -1 ELSE r + start

\* str.find(c, start)
FindFrom(s, c, start) == Shifted(Find(From(s, start), c), start)

\* s cut at the 0-based index i into (s[:i], s[i+1:]); (s, "") when i < 0
CutAt(s, i) == IF i < 0 THEN <<s, <<>> >> ELSE <<Upto(s, i), From(s, i + 1)>>

\* str.rstrip(c) for a single character
RECURSIVE RStrip(_, _)
RStrip(s, c) ==
    IF Len(s) > 0 /\ s[Len(s)] = c THEN RStrip(Upto(s, Len(s) - 1), c) ELSE s

\* str.split(c) for a single character: always at least one piece
RECURSIVE Split(_, _)
Split(s, c) ==
    IF \A i \in 1..Len(s) : s[i] # c THEN <<s>>
    ELSE <<Upto(s, Find(s, c))>> \o Split(From(s, Find(s, c) + 1), c)

\* c.join(pieces)
RECURSIVE Join(_, _)
Join(pieces, c) ==
    IF Len(pieces) = 0 THEN <<>>
    ELSE IF Len(pieces) = 1 THEN pieces[1]
    ELSE pieces[1] \o <<c>> \o Join(Tail(pieces), c)

\* Lexicographic order of two strings by character code (Python's str <)
RECURSIVE StrLess(_, _)
StrLess(a, b) ==
    IF Len(b) = 0 THEN FALSE
    ELSE IF Len(a) = 0 THEN TRUE
    ELSE IF a[1] # b[1] THEN Ord(a[1]) < Ord(b[1])
    ELSE StrLess(Tail(a), Tail(b))

-----------------------------------------------------------------------------
(* urllib.parse as used by normalize_url                                   *)

scheme_chars == UpperChars \cup LowerChars \cup DigitChars \cup {"+", "-", "."}

uses_netloc == { <<>>, <<"h","t","t","p">>, <<"h","t","t","p","s">>, <<"f","t","p">> }
uses_params == { <<>>, <<"h","t","t","p">>, <<"h","t","t","p","s">>, <<"f","t","p">> }

\* _splitnetloc(url, 2): the 0-based index of the first "/", "?" or "#"
\* after the leading "//", or the length when there is none
NetlocEnd(url) ==
    CHOOSE d \in 2..Len(url) :
        /\ d = Len(url) \/ url[d + 1] \in {"/", "?", "#"}
        /\ \A j \in 3..d : url[j] \notin {"/", "?", "#"}

SplitResult(scheme, netloc, pathQuery, fragment) ==
    [scheme |-> scheme, netloc |-> netloc, path |-> pathQuery[1],
     query |-> pathQuery[2], fragment |-> fragment]

\* urlsplit from `if '?' in url`, given (url, fragment)
SplitQuery(scheme, netloc, urlFragment) ==
    SplitResult(scheme, netloc,
                CutAt(urlFragment[1], Find(urlFragment[1], "?")), urlFragment[2])

\* urlsplit from `if allow_fragments and '#' in url`
SplitFragment(scheme, netloc, url) ==
    SplitQuery(scheme, netloc, CutAt(url, Find(url, "#")))

\* urlsplit from `if url[:2] == '//'`, d being the end of the netloc (-1: none)
SplitNetloc(scheme, url, d) ==
    SplitFragment(scheme,
                  IF d < 0 THEN <<>> ELSE SubSeq(url, 3, d),
                  IF d < 0 THEN url ELSE From(url, d))

\* urlsplit from the scheme test, i being url.find(':')
SplitScheme(url, i, hasScheme) ==
    SplitNetloc(IF hasScheme THEN Lower(Upto(url, i)) ELSE <<>>,
                IF hasScheme THEN From(url, i + 1) ELSE url,
                IF hasScheme
                THEN (IF StartsWith(From(url, i + 1), <<"/", "/">>)
                      THEN NetlocEnd(From(url, i + 1)) ELSE -1)
                ELSE (IF StartsWith(url, <<"/", "/">>) THEN NetlocEnd(url) ELSE -1))

HasScheme(url, i) ==
    /\ i > 0
    /\ url[1] \in UpperChars \cup LowerChars
    /\ \A k \in 1..i : url[k] \in scheme_chars

\* urlsplit(url)
urlsplit(url) == SplitScheme(url, Find(url, ":"), HasScheme(url, Find(url, ":")))

\* _splitparams(url)
splitparams(url) ==
    CutAt(url, IF \E k \in 1..Len(url) : url[k] = "/"
               THEN FindFrom(url, ";", RFind(url, "/"))
               ELSE Find(url, ";"))

ParseResult(s, pathParams) ==
    [scheme |-> s.scheme, netloc |-> s.netloc, path |-> pathParams[1],
     params |-> pathParams[2], query |-> s.query, fragment |-> s.fragment]

SplitParamsOf(s) ==
    ParseResult(s, IF s.scheme \in uses_params /\ (\E k \in 1..Len(s.path) : s.path[k] = ";")
                   THEN splitparams(s.path) ELSE <<s.path, <<>> >>)

\* urlparse(url)
urlparse(url) == SplitParamsOf(urlsplit(url))

\* urlunsplit, the netloc step: url with "//netloc" put before it
WithNetloc(netloc, url) ==
    <<"/", "/">> \o netloc
        \o (IF url # <<>> /\ url[1] # "/" THEN <<"/">> \o url ELSE url)

\* urlunsplit from `if scheme:`
WithScheme(scheme, url, query, fragment) ==
    (IF scheme # <<>> THEN scheme \o <<":">> ELSE <<>>) \o url
        \o (IF query # <<>> THEN <<"?">> \o query ELSE <<>>)
        \o (IF fragment # <<>> THEN <<"#">> \o fragment ELSE <<>>)

\* urlunsplit((scheme, netloc, url, query, fragment))
urlunsplit(scheme, netloc, url, query, fragment) ==
    WithScheme(scheme,
               IF \/ netloc # <<>>
                  \/ (scheme # <<>> /\ scheme \in uses_netloc
                        /\ ~StartsWith(url, <<"/", "/">>))
               THEN WithNetloc(netloc, url) ELSE url,
               query, fragment)

\* urlunparse((scheme, netloc, url, params, query, fragment))
urlunparse(scheme, netloc, url, params, query, fragment) ==
    urlunsplit(scheme, netloc,
               IF params # <<>> THEN url \o <<";">> \o params ELSE url,
               query, fragment)

HexDigits == <<"0","1","2","3","4","5","6","7","8","9","A","B","C","D","E","F">>
HexLower == <<"0","1","2","3","4","5","6","7","8","9","a","b","c","d","e","f">>

IsHex(c) == \E i \in 1..16 : HexDigits[i] = c \/ HexLower[i] = c

HexVal(c) == (CHOOSE i \in 1..16 : HexDigits[i] = c \/ HexLower[i] = c) - 1

\* s starts with an escape %XX of a printable ASCII character
IsEscape(s) ==
    /\ Len(s) >= 3
    /\ s[1] = "%"
    /\ IsHex(s[2]) /\ IsHex(s[3])
    /\ (16 * HexVal(s[2]) + HexVal(s[3])) \in 32..126

\* urllib.parse.unquote: %XX becomes the character of that code; a "%" not
\* followed by two hex digits stays as it is
RECURSIVE unquote(_)
unquote(s) ==
    IF Len(s) = 0 THEN <<>>
    ELSE IF IsEscape(s)
         THEN <<Chr(16 * HexVal(s[2]) + HexVal(s[3]))>> \o unquote(From(s, 3))
         ELSE <<s[1]>> \o unquote(Tail(s))

\* str.replace(a, b) for single characters
Replace(s, a, b) == [i \in 1..Len(s) |-> IF s[i] = a THEN b ELSE s[i]]

\* quote_plus of one character: letters, digits and "_.-~" are kept, a space
\* becomes "+", every other character becomes %XX in upper-case hex
QuoteChar(c) ==
    IF c \in UpperChars \cup LowerChars \cup DigitChars \cup {"_", ".", "-", "~"} THEN <<c>>
    ELSE IF c = " " THEN <<"+">>
    ELSE <<"%", HexDigits[(Ord(c) \div 16) + 1], HexDigits[(Ord(c) % 16) + 1]>>

\* urllib.parse.quote_plus
RECURSIVE quote_plus(_)
quote_plus(s) ==
    IF Len(s) = 0 THEN <<>> ELSE QuoteChar(s[1]) \o quote_plus(Tail(s))

\* One "name=value" piece of a query string cut at its first "=" into
\* (name, value), as parse_qsl decodes it
DecodePair(nv) ==
    <<unquote(Replace(nv[1], "+", " ")), unquote(Replace(nv[2], "+", " "))>>

ParsePair(name_value) == DecodePair(CutAt(name_value, Find(name_value, "=")))

\* parse_qsl(qs, keep_blank_values=True): empty pieces are skipped
RECURSIVE ParsePieces(_)
ParsePieces(pieces) ==
    IF Len(pieces) = 0 THEN <<>>
    ELSE (IF pieces[1] = <<>> THEN <<>> ELSE <<ParsePair(pieces[1])>>)
            \o ParsePieces(Tail(pieces))

parse_qsl(qs) == IF qs = <<>> THEN <<>> ELSE ParsePieces(Split(qs, "&"))

\* urlencode(q, doseq=True) of a list of (key, value) string pairs
RECURSIVE EncodePairs(_)
EncodePairs(q) ==
    IF Len(q) = 0 THEN <<>>
    ELSE <<quote_plus(q[1][1]) \o <<"=">> \o quote_plus(q[1][2])>> \o EncodePairs(Tail(q))

urlencode(q) == Join(EncodePairs(q), "&")

-----------------------------------------------------------------------------
(* normalize_url                                                           *)

Utm == <<"u","t","m","_">>
Gclid == <<"g","c","l","i","d">>
Fbclid == <<"f","b","c","l","i","d">>
McCid == <<"m","c","_","c","i","d">>
McEid == <<"m","c","_","e","i","d">>
WwwDot == <<"w","w","w",".">>

TRACKING_QUERY_PREFIXES == {Utm}
TRACKING_QUERY_KEYS == {Gclid, Fbclid, McCid, McEid}

\* The test of the filter loop: k is a tracking key
IsTracking(k) ==
    k \in TRACKING_QUERY_KEYS \/ \E p \in TRACKING_QUERY_PREFIXES : StartsWith(k, p)

\* The filter loop of normalize_url: tracking parameters are dropped
RECURSIVE FilterQuery(_)
FilterQuery(pairs) ==
    IF Len(pairs) = 0 THEN <<>>
    ELSE (IF IsTracking(pairs[1][1]) THEN <<>> ELSE <<pairs[1]>>)
            \o FilterQuery(Tail(pairs))

\* Inserts kv after the last pair whose key is not greater (stable)
RECURSIVE InsertByKey(_, _)
InsertByKey(sorted, kv) ==
    IF Len(sorted) = 0 THEN <<kv>>
    ELSE IF StrLess(kv[1], sorted[1][1]) THEN <<kv>> \o sorted
    ELSE <<sorted[1]>> \o InsertByKey(Tail(sorted), kv)

\* q.sort(key=lambda kv: kv[0]): a stable sort by key alone
RECURSIVE SortByKey(_)
SortByKey(q) ==
    IF Len(q) = 0 THEN <<>>
    ELSE InsertByKey(SortByKey(Upto(q, Len(q) - 1)), q[Len(q)])

\* The host step of normalize_url on the lower-cased netloc: one leading
\* "www." is removed
StripWww(netloc) == IF StartsWith(netloc, WwwDot) THEN From(netloc, 4) ELSE netloc

NormalizeNetloc(netloc) == StripWww(Lower(netloc))

\* The path step of normalize_url on `parsed.path or "/"`: trailing slashes
\* are stripped from a path other than "/"
StripSlashes(path) ==
    IF path # <<"/">> /\ EndsWith(path, <<"/">>) THEN RStrip(path, "/") ELSE path

NormalizePath(path) == StripSlashes(IF path = <<>> THEN <<"/">> ELSE path)

\* The query step of normalize_url
NormalizeQuery(query) == urlencode(SortByKey(FilterQuery(parse_qsl(query))))

\* normalize_url from `netloc = parsed.netloc.lower()` to urlunparse
Reassemble(parsed) ==
    urlunparse(parsed.scheme, NormalizeNetloc(parsed.netloc),
               NormalizePath(parsed.path), <<>>,
               NormalizeQuery(parsed.query), <<>>)

normalize_url(url) == IF ~Truthy(url) THEN None ELSE Reassemble(urlparse(url))

-----------------------------------------------------------------------------
(* Inputs of the normalize_url runs                                        *)

\* The most query parameters an input URL carries
MaxParams == 2

Http == <<"h","t","t","p">>
HostA == <<"a",".","c","o","m">>

UrlHosts == {HostA, WwwDot \o HostA, <<"W","W","W",".">> \o HostA, WwwDot \o WwwDot \o HostA}
UrlPaths == {<<>>, <<"/">>, <<"/","p">>, <<"/","p","/">>, <<"/","/">>, <<"/","p","/","/">>}
UrlFragments == {<<>>, <<"f">>}

\* Raw "name=value" parameters as they stand in a URL
PlainParams == { <<"a","=","1">>, <<"a","=","2">>, <<"b","=","2">>, <<"a","=","/">> }
TrackingParams == { <<"u","t","m","_","x","=","1">>, <<"g","c","l","i","d","=","3">> }

RECURSIVE SeqsUpTo(_, _)
SeqsUpTo(S, n) ==
    IF n = 0 THEN {<<>>}
    ELSE LET shorter == SeqsUpTo(S, n - 1) IN
         shorter \cup {Append(q, x) : q \in {r \in shorter : Len(r) = n - 1}, x \in S}

UrlQueries == SeqsUpTo(PlainParams \cup TrackingParams, MaxParams)

\* The URL text of scheme http with the given host, path, parameters and fragment
BuildUrl(host, path, params, fragment) ==
    Http \o <<":", "/", "/">> \o host \o path
        \o (IF Len(params) > 0 THEN <<"?">> \o Join(params, "&") ELSE <<>>)
        \o (IF Len(fragment) > 0 THEN <<"#">> \o fragment ELSE <<>>)

\* q2 holds the parameters of q1 in another order
IsPermutation(q1, q2) ==
    /\ Len(q1) = Len(q2)
    /\ \E f \in [1..Len(q1) -> 1..Len(q1)] :
          /\ \A i, j \in 1..Len(q1) : i # j => f[i] # f[j]
          /\ \A i \in 1..Len(q1) : q2[i] = q1[f[i]]

\* q2 is q1 with one tracking parameter put in at some place
AddsTracking(q1, q2) ==
    \E i \in 0..Len(q1), t \in TrackingParams :
        q2 = Upto(q1, i) \o <<t>> \o From(q1, i)

UrlKinds == {"fragment", "tracking", "order", "www", "slash"}

\* The second URL differs from the first in exactly the way `kind` names
Differs(kind, h1, p1, q1, f1, h2, p2, q2, f2) ==
    CASE kind = "fragment" -> h2 = h1 /\ p2 = p1 /\ q2 = q1 /\ f2 # f1
      [] kind = "tracking" -> h2 = h1 /\ p2 = p1 /\ f2 = f1 /\ AddsTracking(q1, q2)
      [] kind = "order"    -> h2 = h1 /\ p2 = p1 /\ f2 = f1 /\ q2 # q1 /\ IsPermutation(q1, q2)
      [] kind = "www"      -> p2 = p1 /\ q2 = q1 /\ f2 = f1 /\ h2 = WwwDot \o h1
      [] kind = "slash"    -> h2 = h1 /\ q2 = q1 /\ f2 = f1 /\ p2 = p1 \o <<"/">>

NormIdle ==
    /\ n_pc = "idle" /\ n_url = None /\ n_alt = None /\ n_kind = "none"
    /\ n_out = None /\ n_again = None /\ n_alt_out = None

NormInit ==
    /\ n_pc = "start"
    /\ n_kind \in UrlKinds
    /\ \E h1 \in UrlHosts, p1 \in UrlPaths, q1 \in UrlQueries, f1 \in UrlFragments :
          /\ n_url = BuildUrl(h1, p1, q1, f1)
          /\ \E h2 \in {h1, WwwDot \o h1}, p2 \in {p1, p1 \o <<"/">>},
                q2 \in UrlQueries \cup {Upto(q1, i) \o <<t>> \o From(q1, i) :
                                            i \in 0..Len(q1), t \in TrackingParams},
                f2 \in UrlFragments :
                /\ Differs(n_kind, h1, p1, q1, f1, h2, p2, q2, f2)
                /\ n_alt = BuildUrl(h2, p2, q2, f2)
    /\ n_out = None /\ n_again = None /\ n_alt_out = None

\* normalize_url(u)
NormalizeUrl ==
    /\ n_pc = "start"
    /\ n_out' = normalize_url(n_url)
    /\ n_pc' = "once"
    /\ UNCHANGED <<n_url, n_alt, n_kind, n_again, n_alt_out>>
    /\ UNCHANGED notNorm

\* normalize_url(normalize_url(u))
NormalizeAgain ==
    /\ n_pc = "once"
    /\ n_again' = normalize_url(n_out)
    /\ n_pc' = "twice"
    /\ UNCHANGED <<n_url, n_alt, n_kind, n_out, n_alt_out>>
    /\ UNCHANGED notNorm

\* normalize_url of the second URL
NormalizeAlt ==
    /\ n_pc = "twice"
    /\ n_alt_out' = normalize_url(n_alt)
    /\ n_pc' = "done"
    /\ UNCHANGED <<n_url, n_alt, n_kind, n_out, n_again>>
    /\ UNCHANGED notNorm

\* C1: normalize_url is idempotent: normalizing the result of normalize_url
\* gives that result again.
NormalizeIdempotent == n_pc \in {"twice", "done"} => n_again = n_out

\* C2: two URLs that differ only in fragment, in a tracking parameter, in
\* the order of their query parameters, in a leading "www." or in one
\* trailing slash normalize to the same string.
EquivalentUrlsNormalizeEqual == n_pc = "done" => n_alt_out = n_out

-----------------------------------------------------------------------------
(* Discovery items (place objects of the maps provider)                    *)

\* A place object; a key the provider left out reads as None (dict.get)
Place(name, website, website_url, link, lat, lon) ==
    [name |-> name, title |-> None,
     formatted_address |-> None, address |-> None,
     phone |-> None, phone_number |-> None,
     website |-> website, website_url |-> website_url, link |-> link,
     types |-> None, type |-> None,
     gps_coordinates |-> [latitude |-> lat, longitude |-> lon]]

HostB == <<"b",".","c","o","m">>
UrlA == BuildUrl(HostA, <<"/">>, <<>>, <<>>)
UrlAwww == BuildUrl(WwwDot \o HostA, <<>>, <<>>, <<>>)
UrlAbare == BuildUrl(HostA, <<>>, <<>>, <<>>)
UrlBp == BuildUrl(HostB, <<"/","p">>, <<>>, <<>>)
UrlBpSlash == BuildUrl(HostB, <<"/","p","/">>, <<>>, <<>>)
UrlSlashes == <<"/","/","/","/">>

-----------------------------------------------------------------------------
(* scrape_businesses: dedupe across sources by normalized URL              *)

\* url_for_dedupe(src, r)
url_for_dedupe(src, r) == normalize_url(Or(Or(r.website, r.website_url), r.link))

\* The most items the dedupe loop is given
MaxItems == 3

DedupItems ==
    { Place(<<"A","1">>, UrlA, None, None, 1, 2),
      Place(<<"A","2">>, UrlAwww, None, None, 1, 2),
      Place(<<"A","3">>, None, UrlAbare, None, 1, 2),
      Place(<<"B","1">>, <<>>, None, UrlBpSlash, 3, 4),
      Place(<<"B","2">>, UrlBp, None, None, 3, 4),
      Place(<<"N","1">>, None, None, None, 5, 6),
      Place(<<"S","1">>, UrlSlashes, None, None, 5, 6) }

DedupIdle ==
    /\ d_pc = "idle" /\ combined_tagged = <<>> /\ d_i = 0
    /\ seen_urls = {} /\ filtered_tagged = <<>>

DedupInit ==
    /\ d_pc = "dedupe"
    /\ combined_tagged \in SeqsUpTo({<<"maps", r>> : r \in DedupItems}, MaxItems)
    /\ d_i = 1
    /\ seen_urls = {}
    /\ filtered_tagged = <<>>

\* What one pass of the loop body does to (seen_urls, filtered_tagged)
DedupeBody(seen, kept, tagged, key) ==
    IF Truthy(key) /\ key \notin seen
    THEN [seen |-> seen \cup {key}, kept |-> Append(kept, tagged)]
    ELSE IF key = None
    THEN [seen |-> seen, kept |-> Append(kept, tagged)]
    ELSE [seen |-> seen, kept |-> kept]

\* for src, r in combined_tagged: one iteration
DedupeStep ==
    /\ d_pc = "dedupe"
    /\ d_i <= Len(combined_tagged)
    /\ \E after \in {DedupeBody(seen_urls, filtered_tagged, combined_tagged[d_i],
                                 url_for_dedupe(combined_tagged[d_i][1],
                                                combined_tagged[d_i][2]))} :
          /\ seen_urls' = after.seen
          /\ filtered_tagged' = after.kept
    /\ d_i' = d_i + 1
    /\ UNCHANGED <<d_pc, combined_tagged>>
    /\ UNCHANGED notDedup

\* the loop is exhausted
DedupeEnd ==
    /\ d_pc = "dedupe"
    /\ d_i > Len(combined_tagged)
    /\ d_pc' = "deduped"
    /\ UNCHANGED <<combined_tagged, d_i, seen_urls, filtered_tagged>>
    /\ UNCHANGED notDedup

\* The dedupe keys of the items
DedupeKeys(items) == [i \in 1..Len(items) |-> url_for_dedupe(items[i][1], items[i][2])]

\* The items the dedupe step is to keep: every item without a key, and the
\* first item of every key
RECURSIVE FirstPerKeyFrom(_, _, _)
FirstPerKeyFrom(items, keys, i) ==
    IF i > Len(items) THEN <<>>
    ELSE (IF keys[i] = None \/ \A j \in 1..(i - 1) : keys[j] # keys[i]
          THEN <<items[i]>> ELSE <<>>) \o FirstPerKeyFrom(items, keys, i + 1)

FirstPerKey(items) == FirstPerKeyFrom(items, DedupeKeys(items), 1)

\* C3: after cross-source dedup the survivors are, in input order, every item
\* with no resolvable key and the first item of each distinct key.
DedupKeepsFirstPerKey ==
    d_pc = "deduped" => filtered_tagged = FirstPerKey(combined_tagged)

-----------------------------------------------------------------------------
(* scrape_businesses: the record and its merge with the enrichment         *)

\* The keys of the merge loop, in its order
MergeKeys ==
    << "center_name", "address", "city", "state", "country", "zipcode", "email",
       "website", "websiteurl", "phone", "whatsapp", "facebookurl", "instagramurl",
       "twitterurl", "tiktokurl", "linkedinurl", "services" >>

MergeKeySet == {MergeKeys[i] : i \in 1..Len(MergeKeys)}

\* The keys of a record that the merge loop does not name
UnmergedKeys == {"id", "business_name", "url", "snippet"}

\* The body of the merge loop for key k
MergeEnrichFirst(record, enrich, k) ==
    IF Truthy(enrich[k]) THEN [record EXCEPT ![k] = Or(enrich[k], record[k])] ELSE record

MergeField(record, enrich, k) ==
    IF Truthy(enrich[k]) THEN [record EXCEPT ![k] = Or(record[k], enrich[k])] ELSE record

\* The merge loop from its i-th key on
RECURSIVE MergeFrom(_, _, _)
MergeFrom(record, enrich, i) ==
    IF i > Len(MergeKeys) THEN record
    ELSE MergeFrom(MergeField(record, enrich, MergeKeys[i]), enrich, i + 1)

\* for k in [...]: if k in enrich and enrich[k]: record[k] = record.get(k) or enrich[k]
MergeRecord(record, enrich) == MergeFrom(record, enrich, 1)

BaseValues == {None, <<>>, <<"b">>}
EnrichValues == {None, <<>>, <<"e">>}

MergeIdle ==
    /\ m_pc = "idle" /\ m_base = None /\ m_record = None /\ m_enrich = None

\* A record and an enrichment: one key holds any pair of values, the other
\* merge keys one pair in common
MergeInit ==
    /\ m_pc = "merge"
    /\ \E f \in MergeKeySet, bv, bg \in BaseValues, ev, eg \in EnrichValues :
          /\ m_record = [k \in MergeKeySet \cup UnmergedKeys |->
                            IF k = "id" THEN 1
                            ELSE IF k \in UnmergedKeys THEN <<"u">>
                            ELSE IF k = f THEN bv ELSE bg]
          /\ m_enrich = [k \in MergeKeySet |-> IF k = f THEN ev ELSE eg]
    /\ m_base = m_record

\* enrich = extract_from_html(...) is merged into the record
Merge ==
    /\ m_pc = "merge"
    /\ m_record' = MergeRecord(m_record, m_enrich)
    /\ m_pc' = "merged"
    /\ UNCHANGED <<m_base, m_enrich>>
    /\ UNCHANGED notMerge

\* C4: the merge is first-non-empty-wins per key of the merge list: the
\* record's own value when it is non-empty, else the enrichment's value when
\* that is non-empty, else the record's own; the other keys are unchanged.
MergeFirstNonEmptyWins ==
    m_pc = "merged" =>
        /\ \A k \in MergeKeySet :
              m_record[k] = IF Truthy(m_base[k]) THEN m_base[k]
                            ELSE IF Truthy(m_enrich[k]) THEN m_enrich[k]
                            ELSE m_base[k]
        /\ \A k \in UnmergedKeys : m_record[k] = m_base[k]
        /\ DOMAIN m_record = DOMAIN m_base

\* A merge in which one key was filled from the enrichment and another kept
\* the record's value against a different one of the enrichment
MergeFilledAndKept ==
    /\ m_pc = "merged"
    /\ \E k \in MergeKeySet :
          ~Truthy(m_base[k]) /\ Truthy(m_enrich[k]) /\ m_record[k] = m_enrich[k]
    /\ \E k \in MergeKeySet :
          /\ Truthy(m_base[k]) /\ Truthy(m_enrich[k]) /\ m_base[k] # m_enrich[k]
          /\ m_record[k] = m_base[k]

-----------------------------------------------------------------------------
(* extract_from_html: the JSON-LD objects                                  *)

\* text is a string (a sequence of characters), not None and not a list
IsStr(v) == \A i \in 1..Len(v) : v[i] \in UpperChars \cup LowerChars \cup DigitChars
                \cup {" ", ".", ":", "/", "@", "-", "_", "+", "?", "=", "&", "#", "%", "|"}

\* str.strip() of blanks
RECURSIVE LStrip(_)
LStrip(s) == IF Len(s) > 0 /\ s[1] = " " THEN LStrip(Tail(s)) ELSE s

Strip(s) == RStrip(LStrip(s), " ")

\* first(a, b): the first argument that is a non-blank string, stripped
first(a, b) ==
    IF Truthy(a) /\ IsStr(a) /\ Strip(a) # <<>> THEN Strip(a)
    ELSE IF Truthy(b) /\ IsStr(b) /\ Strip(b) # <<>> THEN Strip(b)
    ELSE None

\* `d in l` for strings
Contains(l, d) == \E i \in 1..(Len(l) - Len(d) + 1) : SubSeq(l, i, i + Len(d) - 1) = d

SOCIAL_DOMAINS ==
    [facebookurl |-> {<<"f","a","c","e","b","o","o","k",".","c","o","m">>},
     instagramurl |-> {<<"i","n","s","t","a","g","r","a","m",".","c","o","m">>},
     twitterurl |-> {<<"t","w","i","t","t","e","r",".","c","o","m">>, <<"x",".","c","o","m">>},
     tiktokurl |-> {<<"t","i","k","t","o","k",".","c","o","m">>},
     linkedinurl |-> {<<"l","i","n","k","e","d","i","n",".","c","o","m">>}]

SocialKeys == <<"facebookurl", "instagramurl", "twitterurl", "tiktokurl", "linkedinurl">>

\* The if/elif chain of pick_social_from_sameas on the lower-cased link: the
\* key of the first social network one of whose domains the link holds
SocialKeyOf(l) ==
    IF \E d \in SOCIAL_DOMAINS.facebookurl : Contains(l, d) THEN "facebookurl"
    ELSE IF \E d \in SOCIAL_DOMAINS.instagramurl : Contains(l, d) THEN "instagramurl"
    ELSE IF \E d \in SOCIAL_DOMAINS.twitterurl : Contains(l, d) THEN "twitterurl"
    ELSE IF \E d \in SOCIAL_DOMAINS.tiktokurl : Contains(l, d) THEN "tiktokurl"
    ELSE IF \E d \in SOCIAL_DOMAINS.linkedinurl : Contains(l, d) THEN "linkedinurl"
    ELSE "none"

NoSocial == [k \in {SocialKeys[i] : i \in 1..5} |-> None]

\* The loop of pick_social_from_sameas: a later link of a network replaces
\* an earlier one
RECURSIVE PickLinks(_, _)
PickLinks(social, links) ==
    IF Len(links) = 0 THEN social
    ELSE PickLinks(IF IsStr(links[1]) /\ SocialKeyOf(Lower(links[1])) # "none"
                   THEN [social EXCEPT ![SocialKeyOf(Lower(links[1]))] = links[1]]
                   ELSE social,
                   Tail(links))

\* The value of a "sameAs" key: None, one string, or a list of strings;
\* links holds `same_as if isinstance(same_as, list) else [same_as]`
SameAsNone == [kind |-> "none", links |-> <<>>]
SameAsStr(link) == [kind |-> "str", links |-> <<link>>]
SameAsList(links) == [kind |-> "list", links |-> links]

\* pick_social_from_sameas(same_as)
pick_social_from_sameas(same_as) ==
    IF \/ same_as.kind = "none"
       \/ same_as.links = <<>>
       \/ (same_as.kind = "str" /\ same_as.links[1] = <<>>)
    THEN NoSocial
    ELSE PickLinks(NoSocial, same_as.links)

\* A JSON value that may be an object: kind is "none" (absent or null),
\* "dict", or "other" (a string, a number, a list)
Absent == [kind |-> "none"]
NotADict == [kind |-> "other"]

\* The address object of a JSON-LD object
LdAddress(street, locality, region, country, postal) ==
    [kind |-> "dict", streetAddress |-> street, address |-> None,
     addressLocality |-> locality, locality |-> None,
     addressRegion |-> region, region |-> None,
     addressCountry |-> country, postalCode |-> postal]

\* An entry of the "@graph" array
LdGraphEntry(type, sameAs, email) ==
    [kind |-> "dict", type |-> type, sameAs |-> sameAs, email |-> email]

\* The value of a "@graph" key: None or a list of entries
GraphNone == [kind |-> "none", entries |-> <<>>]
GraphList(entries) == [kind |-> "list", entries |-> entries]

\* A JSON-LD object
LdObject(name, address, telephone, url, sameAs, email, graph, contactPoint) ==
    [kind |-> "dict", name |-> name, address |-> address,
     telephone |-> telephone, phone |-> None, url |-> url,
     sameAs |-> sameAs, email |-> email, graph |-> graph,
     contactPoint |-> contactPoint]

\* The outcome of a step that may raise
Raised == [raised |-> TRUE, value |-> None]
Returned(v) == [raised |-> FALSE, value |-> v]

\* `if name and not out["center_name"]` to `out["websiteurl"] = ...`: the
\* assignments made before "sameAs" is read
LdEarlyFields(o, obj) ==
    [o EXCEPT
        !["center_name"] = IF Truthy(obj.name) /\ ~Truthy(o["center_name"])
                           THEN Strip(obj.name) ELSE @,
        !["address"] = IF obj.address.kind = "dict"
                       THEN Or(first(obj.address.streetAddress, obj.address.address), @)
                       ELSE @,
        !["city"] = IF obj.address.kind = "dict"
                    THEN Or(first(obj.address.addressLocality, obj.address.locality), @)
                    ELSE @,
        !["state"] = IF obj.address.kind = "dict"
                     THEN Or(first(obj.address.addressRegion, obj.address.region), @)
                     ELSE @,
        !["country"] = IF obj.address.kind = "dict"
                       THEN Or(first(obj.address.addressCountry, None), @)
                       ELSE @,
        !["zipcode"] = IF obj.address.kind = "dict"
                       THEN Or(first(obj.address.postalCode, None), @)
                       ELSE @,
        !["phone"] = Or(first(obj.telephone, obj.phone), @),
        !["websiteurl"] = Or(first(obj.url, None), @)]

\* for graph in graphs: the "sameAs" of the first entry of type Organization,
\* else of the last entry; an entry that is no object raises when it is reached
RECURSIVE GraphSameAs(_, _)
GraphSameAs(link, graphs) ==
    IF Len(graphs) = 0 THEN Returned(link)
    ELSE IF graphs[1].kind # "dict" THEN Raised
    ELSE IF graphs[1].type = <<"O","r","g","a","n","i","z","a","t","i","o","n">> THEN Returned(graphs[1].sameAs)
    ELSE GraphSameAs(graphs[1].sameAs, Tail(graphs))

\* link = obj.get("sameAs"), then the "@graph" scan when it is None
LdLink(obj) ==
    IF obj.sameAs.kind = "none" /\ obj.graph.kind # "none"
    THEN GraphSameAs(SameAsNone, obj.graph.entries)
    ELSE Returned(obj.sameAs)

\* for graph in graphs: the first "email" that is not None
RECURSIVE GraphEmail(_)
GraphEmail(graphs) ==
    IF Len(graphs) = 0 THEN Returned(None)
    ELSE IF graphs[1].kind # "dict" THEN Raised
    ELSE IF graphs[1].email # None THEN Returned(graphs[1].email)
    ELSE GraphEmail(Tail(graphs))

\* email = obj.get("email"), then contactPoint.email, then the "@graph" scan
LdEmail(obj) ==
    IF obj.email # None THEN Returned(obj.email)
    ELSE IF obj.contactPoint.kind = "other" THEN Raised
    ELSE IF obj.contactPoint.kind = "dict" /\ obj.contactPoint.email # None
         THEN Returned(obj.contactPoint.email)
    ELSE IF obj.graph.kind # "none" THEN GraphEmail(obj.graph.entries)
    ELSE Returned(None)

\* for k, v in social.items(): out[k] = out[k] or v
LdSocialFields(o, social) ==
    [k \in DOMAIN o |-> IF k \in DOMAIN social THEN Or(o[k], social[k]) ELSE o[k]]

\* out["email"] = first(email) or out["email"], then the social links
LdLateFields(o, email, link) ==
    LdSocialFields([o EXCEPT !["email"] = Or(first(email, None), @)],
                   pick_social_from_sameas(link))

\* The rest of the try body once the early fields are assigned: an exception
\* leaves `out` as it is by then
LdAfterEarly(o, obj, link, email) ==
    IF link.raised \/ email.raised THEN o
    ELSE LdLateFields(o, email.value, link.value)

\* The body of `for obj in ld_list`, with its `except Exception: continue`
LdBody(o, obj) ==
    IF obj.kind # "dict" THEN o
    ELSE LdAfterEarly(LdEarlyFields(o, obj), obj, LdLink(obj), LdEmail(obj))

\* The most JSON-LD objects of a page
MaxObjects == 2

AddrOne == LdAddress(<<"1"," ","M","a","i","n"," ","S","t">>, <<"I","p","o","h">>, <<"P","e","r","a","k">>, <<"M","Y">>, <<"3","0","0","0","0">>)
AddrTwo == LdAddress(<<"2"," ","S","i","d","e"," ","R","d">>, <<"K","l","a","n","g">>, <<"S","e","l","a","n","g","o","r">>, <<"S","G">>, <<"4","1","0","0","0">>)

FbOne == <<"h","t","t","p","s",":","/","/","f","a","c","e","b","o","o","k",".","c","o","m","/","o","n","e">>
FbTwo == <<"h","t","t","p","s",":","/","/","F","a","c","e","b","o","o","k",".","c","o","m","/","t","w","o">>
IgOne == <<"h","t","t","p","s",":","/","/","i","n","s","t","a","g","r","a","m",".","c","o","m","/","o","n","e">>

LdObjects ==
    { LdObject(<<"O","n","e">>, AddrOne, <<"1","1","1">>, <<"h","t","t","p",":","/","/","o","n","e",".","c","o","m">>, SameAsList(<<FbOne>>),
               <<"a","@","o","n","e",".","c","o","m">>, GraphNone, Absent),
      LdObject(<<"T","w","o">>, AddrTwo, <<" ","2","2","2"," ">>, <<"h","t","t","p",":","/","/","t","w","o",".","c","o","m">>, SameAsStr(FbTwo),
               <<"b","@","t","w","o",".","c","o","m">>, GraphNone, Absent),
      LdObject(None, Absent, None, None, SameAsNone, None, GraphNone, Absent),
      LdObject(None, NotADict, None, None, SameAsNone, None,
               GraphList(<< LdGraphEntry(<<"W","e","b","S","i","t","e">>, SameAsList(<<FbTwo>>), None),
                            LdGraphEntry(<<"O","r","g","a","n","i","z","a","t","i","o","n">>, SameAsList(<<IgOne, FbOne>>),
                                         <<"g","@","o","n","e",".","c","o","m">>) >>),
               Absent),
      LdObject(None, Absent, <<"3","3","3">>, None, SameAsNone, None, GraphNone, NotADict),
      LdObject(None, Absent, None, None, SameAsNone, None, GraphNone,
               [kind |-> "dict", email |-> <<"c","@","o","n","e",".","c","o","m">>]),
      NotADict }

\* The defaults of extract_from_html before the JSON-LD loop; the name is
\* the page title as clean_business_name returns it, which may be empty
OutDefaults(website, center_name) ==
    [k \in MergeKeySet |->
        IF k = "center_name" THEN center_name
        ELSE IF k = "website" THEN website
        ELSE None]

JsonLdIdle == j_pc = "idle" /\ ld_list = <<>> /\ j_i = 0 /\ out = None

JsonLdInit ==
    /\ j_pc = "ld"
    /\ ld_list \in SeqsUpTo(LdObjects, MaxObjects)
    /\ j_i = 1
    /\ out \in {OutDefaults(normalize_url(UrlAwww), name) : name \in {<<>>, <<"A","c","m","e">>}}

\* for obj in ld_list: one iteration
JsonLdStep ==
    /\ j_pc = "ld"
    /\ j_i <= Len(ld_list)
    /\ out' = LdBody(out, ld_list[j_i])
    /\ j_i' = j_i + 1
    /\ UNCHANGED <<j_pc, ld_list>>
    /\ UNCHANGED notJsonLd

\* the loop is exhausted
JsonLdEnd ==
    /\ j_pc = "ld"
    /\ j_i > Len(ld_list)
    /\ j_pc' = "heuristics"
    /\ UNCHANGED <<ld_list, j_i, out>>
    /\ UNCHANGED notJsonLd

\* The fields the first-object-wins rule names
FirstWinsKeys ==
    {"address", "city", "state", "country", "zipcode", "phone", "websiteurl", "email",
     "facebookurl", "instagramurl", "twitterurl", "tiktokurl", "linkedinurl"}

\* C7: once a field has been set from an earlier JSON-LD object, no later
\* object of the list changes its value.
FirstObjectWins ==
    [][\A k \in FirstWinsKeys :
          (j_pc = "ld" /\ j_pc' = "ld" /\ Truthy(out[k])) => out'[k] = out[k]]_vars

\* Processing obj raises inside the try: obj is no object, an entry of its
\* "@graph" is no object, or its "contactPoint" is no object
LdRaises(obj) ==
    \/ obj.kind # "dict"
    \/ LdLink(obj).raised
    \/ LdEmail(obj).raised

\* C12: a JSON-LD object whose processing raises contributes nothing: every
\* field of the output keeps the value it had before that object, and the
\* loop goes on to the next object.
RaisingObjectContributesNothing ==
    [][(j_pc = "ld" /\ j_i <= Len(ld_list) /\ LdRaises(ld_list[j_i]))
           => (out' = out /\ j_i' = j_i + 1 /\ j_pc' = "ld")]_vars

-----------------------------------------------------------------------------
(* clean_business_name and domain_to_name                                  *)

\* The en dash, a single character outside ASCII
EnDash == "<en dash>"

UpperChar(c) == IF c \in LowerChars THEN Chr(Ord(c) - 32) ELSE c

\* The character references html.unescape resolves here, each with or
\* without its closing ";"
Entities ==
    << <<<<"&","a","m","p">>, "&">>, <<<<"&","l","t">>, "<">>, <<<<"&","g","t">>, ">">>, <<<<"&","q","u","o","t">>, "\"">>,
       <<<<"&","#","3","9">>, "'">> >>

\* The entity s starts with (0: none)
EntityAt(s) ==
    IF \E e \in 1..Len(Entities) : StartsWith(s, Entities[e][1])
    THEN CHOOSE e \in 1..Len(Entities) : StartsWith(s, Entities[e][1])
    ELSE 0

\* The text after the entity e at the head of s, its ";" included
AfterEntity(s, e) ==
    IF Len(s) > Len(Entities[e][1]) /\ s[Len(Entities[e][1]) + 1] = ";"
    THEN From(s, Len(Entities[e][1]) + 1)
    ELSE From(s, Len(Entities[e][1]))

\* html.unescape
RECURSIVE unescape(_)
unescape(s) ==
    IF Len(s) = 0 THEN <<>>
    ELSE IF s[1] = "&" /\ EntityAt(s) # 0
         THEN <<Entities[EntityAt(s)][2]>> \o unescape(AfterEntity(s, EntityAt(s)))
         ELSE <<s[1]>> \o unescape(Tail(s))

\* re.split(r"\s*[\-|\|]\s*", t)[0]: the text before the first "-" or "|"
\* and the blanks in front of it
FirstSegment(t) ==
    IF \E i \in 1..Len(t) : t[i] \in {"-", "|"}
    THEN RStrip(Upto(t, (CHOOSE i \in 1..Len(t) :
                            /\ t[i] \in {"-", "|"}
                            /\ \A j \in 1..(i - 1) : t[j] \notin {"-", "|"}) - 1), " ")
    ELSE t

\* re.sub(r"\s+", " ", t): runs of blanks become one blank
RECURSIVE CollapseBlanks(_)
CollapseBlanks(t) ==
    IF Len(t) = 0 THEN <<>>
    ELSE IF t[1] = " " /\ Len(t) > 1 /\ t[2] = " " THEN CollapseBlanks(Tail(t))
    ELSE <<t[1]>> \o CollapseBlanks(Tail(t))

\* str.replace(old, "") for a string old
RECURSIVE Remove(_, _)
Remove(s, old) ==
    IF Len(s) = 0 THEN <<>>
    ELSE IF StartsWith(s, old) THEN Remove(From(s, Len(old)), old)
    ELSE <<s[1]>> \o Remove(Tail(s), old)

\* str.title(): a letter is upper-cased after a character that is no letter
\* and lower-cased after a letter
Title(s) ==
    [i \in 1..Len(s) |->
        IF i > 1 /\ s[i - 1] \in UpperChars \cup LowerChars
        THEN LowerChar(s[i]) ELSE UpperChar(s[i])]

\* domain_to_name from `.split(".")[0]` on
NameOfDomain(domain) == Title(Replace(Split(domain, ".")[1], "-", " "))

\* domain_to_name(url)
domain_to_name(url) ==
    NameOfDomain(Remove(urlparse(IF Truthy(url) THEN url ELSE <<>>).netloc, WwwDot))

GenericNames == {<<"a","b","o","u","t">>, <<"s","e","r","v","i","c","e","s">>, <<"h","o","m","e">>, <<"f","a","q">>, <<"c","o","n","t","a","c","t">>}

\* clean_business_name once the title is unescaped, en dashes are hyphens
\* and the left-most segment is stripped
NameOrDomain(t_stripped, url) ==
    IF Len(t_stripped) < 3 \/ Lower(t_stripped) \in GenericNames
    THEN domain_to_name(url)
    ELSE CollapseBlanks(t_stripped)

\* clean_business_name(title, url)
clean_business_name(title, url) ==
    IF ~Truthy(title) THEN domain_to_name(url)
    ELSE NameOrDomain(Strip(FirstSegment(Replace(unescape(title), EnDash, "-"))), url)

-----------------------------------------------------------------------------
(* The providers: get_google_maps_results, get_all_google_maps_results and *)
(* get_google_search_results                                               *)

\* range(3) of the two retry loops
Attempts == 3

\* str() of an integer
RECURSIVE Digits(_)
Digits(n) == IF n < 10 THEN <<Chr(48 + n)>> ELSE Append(Digits(n \div 10), Chr(48 + (n % 10)))

Str(n) == IF n < 0 THEN <<"-">> \o Digits(0 - n) ELSE Digits(n)

\* f"@{latitude},{longitude},15z"
Anchor(latitude, longitude) ==
    <<"@">> \o Str(latitude) \o <<",">> \o Str(longitude) \o <<",","1","5","z">>

\* A list of strings is modelled as the text of its items, each closed by
\* ListEnd: [] is the empty sequence and every other list is non-empty
ListEnd == "<end of item>"

RECURSIVE StrList(_)
StrList(items) ==
    IF Len(items) = 0 THEN <<>> ELSE items[1] \o <<ListEnd>> \o StrList(Tail(items))

\* A JSON value that may be a list
NoList == [kind |-> "none", items |-> <<>>]
ListOf(items) == [kind |-> "list", items |-> items]

\* What one attempt of get_google_maps_results meets: an exception (the
\* request, raise_for_status or the JSON parse), a JSON list, a JSON object
\* (its "search_results", and the object read as a place: `place` holds it
\* when the object has a "name" or a "formatted_address"), any other JSON
MapsError == [kind |-> "error", items |-> <<>>, search_results |-> NoList, place |-> <<>>]
MapsList(items) == [kind |-> "list", items |-> items, search_results |-> NoList, place |-> <<>>]
MapsDict(search, place) == [kind |-> "dict", items |-> <<>>, search_results |-> search, place |-> place]
MapsOther == [kind |-> "other", items |-> <<>>, search_results |-> NoList, place |-> <<>>]

\* The attempt raised inside the try
MapsFailed(resp) == resp.kind = "error"

\* The try body of get_google_maps_results from `isinstance(data, list)` on
MapsResultOf(data) ==
    IF data.kind = "list" THEN data.items
    ELSE IF data.kind = "dict" /\ data.search_results.kind = "list" THEN data.search_results.items
    ELSE IF data.kind = "dict" /\ data.place # <<>> THEN data.place
    ELSE <<>>

\* What one attempt of get_google_search_results meets: an exception, a
\* JSON list (data.get raises AttributeError), a JSON object
SearchError == [kind |-> "error", organic_results |-> NoList]
SearchList == [kind |-> "list", organic_results |-> NoList]
SearchDict(organic) == [kind |-> "dict", organic_results |-> organic]

SearchFailed(resp) == resp.kind # "dict"

\* data.get("organic_results", [])
SearchResultOf(data) == data.organic_results.items

RetryOnceMore(responses) == Len(responses) >= Attempts + 1

\* The retry loop is over once the last attempt has failed
RetryExhausted(responses) == Len(responses) >= Attempts

StopsOnEmptyPage(next, pages, last) == next < pages /\ (next = 0 \/ last # <<>>)

\* `for page in range(max_pages)` has a next page
HasNextPage(next, pages, last) == next < pages

RecentreOnLast(anchor, page_results) ==
    IF Len(page_results) > 0
    THEN Anchor(page_results[Len(page_results)].gps_coordinates.latitude,
                page_results[Len(page_results)].gps_coordinates.longitude)
    ELSE anchor

\* get_all_google_maps_results: the anchor after a page (every place of a
\* provider carries its gps_coordinates)
Recentre(anchor, page_results) ==
    IF Len(page_results) > 0
    THEN Anchor(page_results[1].gps_coordinates.latitude,
                page_results[1].gps_coordinates.longitude)
    ELSE anchor

mapsLocals == <<initial_ll, ll, page, max_pages, all_results>>
mapsLog == <<maps_requests, maps_returns>>
searchVars == <<s_pc, s_responses, search_results>>

\* get_all_google_maps_results: `for page in range(max_pages)` calls
\* get_google_maps_results(query, ll, page), which returns [] without a key
MapsCall ==
    /\ g_pc = "page"
    /\ HasNextPage(page, max_pages, results)
    /\ maps_requests' = Append(maps_requests, [page |-> page, ll |-> ll])
    /\ m_responses' = <<>>
    /\ IF ~Truthy(API_KEY)
       THEN g_pc' = "results" /\ results' = <<>>
       ELSE g_pc' = "attempt" /\ UNCHANGED results
    /\ UNCHANGED <<API_KEY, mapsLocals, maps_returns, searchVars>>
    /\ UNCHANGED notProv

\* get_google_maps_results: one pass of `for attempt in range(3)`
MapsAttemptOn(resp, seen) ==
    /\ m_responses' = seen
    /\ IF ~MapsFailed(resp)
       THEN g_pc' = "results" /\ results' = MapsResultOf(resp)
       ELSE IF RetryExhausted(seen)
       THEN g_pc' = "results" /\ results' = <<>>
       ELSE g_pc' = "attempt" /\ UNCHANGED results

\* get_all_google_maps_results: the loop body after the call
PageDone ==
    /\ g_pc = "results"
    /\ ll' = Recentre(ll, results)
    /\ all_results' = all_results \o results
    /\ maps_returns' = Append(maps_returns, results)
    /\ page' = page + 1
    /\ m_responses' = <<>>
    /\ g_pc' = "page"
    /\ UNCHANGED <<API_KEY, initial_ll, max_pages, results, maps_requests, searchVars>>
    /\ UNCHANGED notProv

\* get_all_google_maps_results: `return all_results`
GetAllReturn ==
    /\ g_pc = "page"
    /\ ~HasNextPage(page, max_pages, results)
    /\ g_pc' = "returned"
    /\ UNCHANGED <<API_KEY, mapsLocals, results, mapsLog, m_responses, searchVars>>
    /\ UNCHANGED notProv

\* get_google_search_results: one pass of `for attempt in range(3)`
SearchAttemptOn(resp, seen) ==
    /\ s_responses' = seen
    /\ IF ~SearchFailed(resp)
       THEN s_pc' = "returned" /\ search_results' = SearchResultOf(resp)
       ELSE IF RetryExhausted(seen)
       THEN s_pc' = "returned" /\ search_results' = <<>>
       ELSE s_pc' = "attempt" /\ UNCHANGED search_results

\* The most pages a run asks for
MaxPages == 3

\* scrape_businesses: the default of its parameter ll
DefaultLl == <<"@","4",".","2","1","0","5",",","1","0","1",".","9","7","5","8",",","1","5","z">>

AddressA == <<"1"," ","J","a","l","a","n"," ","A",","," ","5","0","4","5","0"," ","K","L">>
AddressN == <<"9"," ","J","a","l","a","n"," ","N",","," ","I","p","o","h",","," ","P","e","r","a","k">>

PlaceA ==
    [Place(<<"A","c","m","e"," ","C","a","r","e"," ","-"," ","K","L">>, UrlA, None, None, 1, 2)
        EXCEPT !.formatted_address = AddressA, !.phone = <<"0","3","-","1","1","1">>,
               !.types = StrList(<<<<"c","l","i","n","i","c">>, <<"s","p","a">>>>)]
PlaceB == [Place(None, UrlAwww, None, None, 3, 4) EXCEPT !.title = <<"A","c","m","e">>, !.type = <<"c","l","i","n","i","c">>]
PlaceN == [Place(<<"B","a","b","y"," ","C","o">>, None, None, None, 5, 6) EXCEPT !.address = AddressN]

MapsResponses ==
    { MapsError, MapsOther, MapsList(<<>>), MapsList(<<PlaceA, PlaceB>>),
      MapsDict(ListOf(<<PlaceA, PlaceB>>), <<>>), MapsDict(NoList, <<PlaceN>>),
      MapsDict(NoList, <<>>) }

Result(title, url, snippet) == [title |-> title, link |-> url, snippet |-> snippet]

ResultCare == Result(<<"B","a","b","y"," ","C","a","r","e"," ","C","o">>, UrlBp, <<"C","o","n","f","i","n","e","m","e","n","t"," ","c","e","n","t","r","e">>)
ResultCareAgain == Result(<<"B","a","b","y"," ","C","o">>, UrlBpSlash, None)
ResultShop == Result(<<"S","h","o","e"," ","s","h","o","p">>, <<"h","t","t","p",":","/","/","s","h","o","p",".","c","o","m">>, <<"S","h","o","e","s">>)
ResultNoLink == Result(<<"M","o","t","h","e","r">>, None, None)

SearchResponses ==
    { SearchError, SearchList, SearchDict(NoList), SearchDict(ListOf(<<>>)),
      SearchDict(ListOf(<<ResultNoLink, ResultCare, ResultCareAgain>>)),
      SearchDict(ListOf(<<ResultShop>>)) }

MapsAttempt ==
    /\ g_pc = "attempt"
    /\ \E resp \in MapsResponses : MapsAttemptOn(resp, Append(m_responses, resp))
    /\ UNCHANGED <<API_KEY, mapsLocals, mapsLog, searchVars>>
    /\ UNCHANGED notProv

SearchAttempt ==
    /\ s_pc = "attempt"
    /\ \E resp \in SearchResponses : SearchAttemptOn(resp, Append(s_responses, resp))
    /\ UNCHANGED <<API_KEY, g_pc, mapsLocals, results, mapsLog, m_responses>>
    /\ UNCHANGED notProv

MapsIdle ==
    /\ g_pc = "idle" /\ initial_ll = <<>> /\ ll = <<>> /\ page = 0 /\ max_pages = 0
    /\ all_results = <<>> /\ results = <<>>
    /\ maps_requests = <<>> /\ maps_returns = <<>> /\ m_responses = <<>>

SearchIdle == s_pc = "idle" /\ s_responses = <<>> /\ search_results = <<>>

ProvIdle == API_KEY = None /\ MapsIdle /\ SearchIdle

ApiKeys == {None, <<"k","e","y">>}

\* get_all_google_maps_results(query, ll, max_pages) is called, or
\* get_google_search_results is
ProvInit ==
    \/ /\ API_KEY \in ApiKeys
       /\ g_pc = "page"
       /\ initial_ll \in {<<>>, DefaultLl}
       /\ ll = initial_ll
       /\ page = 0
       /\ max_pages \in -1..MaxPages
       /\ all_results = <<>> /\ results = <<>>
       /\ maps_requests = <<>> /\ maps_returns = <<>> /\ m_responses = <<>>
       /\ SearchIdle
    \/ /\ API_KEY \in ApiKeys \ {None}
       /\ MapsIdle
       /\ s_pc = "attempt" /\ s_responses = <<>> /\ search_results = <<>>

\* The anchor "@lat,lon,15z" of the first result of a page
AnchorOfFirst(page_results) ==
    <<"@">> \o Str(page_results[1].gps_coordinates.latitude) \o <<",">>
        \o Str(page_results[1].gps_coordinates.longitude) \o <<",","1","5","z">>

\* The last of the first k pages that returned results (0: none did)
LastNonEmpty(k) ==
    IF \E j \in 1..k : maps_returns[j] # <<>>
    THEN CHOOSE j \in 1..k :
            /\ maps_returns[j] # <<>>
            /\ \A h \in (j + 1)..k : maps_returns[h] = <<>>
    ELSE 0

\* C5: the request for page 0 uses the initial anchor, and the request for
\* every later page uses the anchor built from the coordinates of the first
\* result of the most recent earlier page that was non-empty, or the initial
\* anchor when every earlier page was empty.
AnchorRecentred ==
    \A k \in 1..Len(maps_requests) :
        maps_requests[k].ll =
            IF LastNonEmpty(k - 1) = 0 THEN initial_ll
            ELSE AnchorOfFirst(maps_returns[LastNonEmpty(k - 1)])

\* The third request is made after a page with results and an empty page,
\* and carries the anchor of the first of the two results of page 0
RecentredAcrossEmptyPage ==
    /\ Len(maps_requests) = 3
    /\ Len(maps_returns[1]) = 2
    /\ maps_returns[2] = <<>>
    /\ maps_requests[3].ll = <<"@","1",",","2",",","1","5","z">>
    /\ maps_requests[3].ll # initial_ll

RECURSIVE Concat(_)
Concat(lists) == IF Len(lists) = 0 THEN <<>> ELSE lists[1] \o Concat(Tail(lists))

RetryPolicy ==
    /\ Len(m_responses) <= 3
    /\ \A i \in 1..(Len(m_responses) - 1) : MapsFailed(m_responses[i])
    /\ g_pc = "attempt" =>
          Len(m_responses) < 3 /\ \A i \in 1..Len(m_responses) : MapsFailed(m_responses[i])
    /\ (g_pc = "results" /\ m_responses # <<>>) =>
          IF MapsFailed(m_responses[Len(m_responses)])
          THEN Len(m_responses) = 3 /\ results = <<>>
          ELSE results = MapsResultOf(m_responses[Len(m_responses)])
    /\ Len(s_responses) <= 3
    /\ \A i \in 1..(Len(s_responses) - 1) : SearchFailed(s_responses[i])
    /\ s_pc = "attempt" =>
          Len(s_responses) < 3 /\ \A i \in 1..Len(s_responses) : SearchFailed(s_responses[i])
    /\ s_pc = "returned" =>
          IF SearchFailed(s_responses[Len(s_responses)])
          THEN Len(s_responses) = 3 /\ search_results = <<>>
          ELSE search_results = s_responses[Len(s_responses)].organic_results.items

\* The maps provider has returned the result of its third attempt after two
\* failures
ThirdAttemptSucceeded ==
    /\ g_pc = "results"
    /\ Len(m_responses) = 3
    /\ MapsFailed(m_responses[1]) /\ MapsFailed(m_responses[2])
    /\ ~MapsFailed(m_responses[3])
    /\ results = <<PlaceN>>

-----------------------------------------------------------------------------
(* extract_from_html: the page and the heuristics after the JSON-LD loop   *)

\* A script tag of type ld+json: its text does not parse ("invalid", also
\* an empty tag), or parses to a list of objects or to one object (items
\* holds the objects either way)
ScriptInvalid == [kind |-> "invalid", items |-> <<>>]
ScriptList(objs) == [kind |-> "list", items |-> objs]
ScriptObject(obj) == [kind |-> "object", items |-> <<obj>>]

\* What BeautifulSoup finds in a page: the title string, the ld+json
\* scripts, the href of each <a href>, the text of each <address>, the text
\* of each tag with an address-like class, id or itemprop, and for each
\* h1..h4 heading its text, the items of the next list after it (find_next)
\* and the paragraphs after it (find_all_next)
Heading(text, list, paragraphs) == [text |-> text, list |-> list, paragraphs |-> paragraphs]

HtmlPage(title, scripts, hrefs, address_tags, address_attrs, headings) ==
    [kind |-> "html", title |-> title, scripts |-> scripts, hrefs |-> hrefs,
     address_tags |-> address_tags, address_attrs |-> address_attrs,
     headings |-> headings]

\* An empty response body
EmptyText ==
    [kind |-> "empty", title |-> None, scripts |-> <<>>, hrefs |-> <<>>,
     address_tags |-> <<>>, address_attrs |-> <<>>, headings |-> <<>>]

\* extract_json_ld
RECURSIVE extract_json_ld(_)
extract_json_ld(scripts) ==
    IF Len(scripts) = 0 THEN <<>>
    ELSE scripts[1].items \o extract_json_ld(Tail(scripts))

\* `for obj in ld_list` of extract_from_html
RECURSIVE LdLoop(_, _)
LdLoop(o, objs) == IF Len(objs) = 0 THEN o ELSE LdLoop(LdBody(o, objs[1]), Tail(objs))

\* \w
WordChars == UpperChars \cup LowerChars \cup DigitChars \cup {"_"}

\* WHATSAPP_RE up to the first character of its last group, lower-cased
WhatsAppHeads ==
    {<<"h","t","t","p",":","/","/","w","a",".","m","e","/">>, <<"h","t","t","p","s",":","/","/","w","a",".","m","e","/">>, <<"h","t","t","p",":","/","/","a","p","i",".","w","h","a","t","s","a","p","p",".","c","o","m","/">>,
     <<"h","t","t","p","s",":","/","/","a","p","i",".","w","h","a","t","s","a","p","p",".","c","o","m","/">>, <<"h","t","t","p",":","/","/","c","h","a","t",".","w","h","a","t","s","a","p","p",".","c","o","m","/">>,
     <<"h","t","t","p","s",":","/","/","c","h","a","t",".","w","h","a","t","s","a","p","p",".","c","o","m","/">>}

\* WHATSAPP_RE.search(href), given href.lower()
WhatsAppSearch(low) ==
    \E head \in WhatsAppHeads : \E i \in 1..Len(low) :
        /\ i + Len(head) <= Len(low)
        /\ SubSeq(low, i, i + Len(head) - 1) = head
        /\ low[i + Len(head)] \in WordChars \cup {"/", "?", "=", "&", "%", "-"}

\* The body of `for a in soup.find_all("a", href=True)` on the stripped href
LinkFields(o, href, key) ==
    [k \in DOMAIN o |->
        IF k = "whatsapp" /\ WhatsAppSearch(Lower(href)) THEN Or(o[k], href)
        ELSE IF k = key THEN Or(o[k], href)
        ELSE o[k]]

RECURSIVE LinkLoop(_, _)
LinkLoop(o, hrefs) ==
    IF Len(hrefs) = 0 THEN o
    ELSE LinkLoop(LinkFields(o, Strip(hrefs[1]), SocialKeyOf(Lower(Strip(hrefs[1])))),
                  Tail(hrefs))

\* The texts longer than 10 characters
RECURSIVE LongTexts(_)
LongTexts(texts) ==
    IF Len(texts) = 0 THEN <<>>
    ELSE IF Truthy(texts[1]) /\ Len(texts[1]) > 10
         THEN <<texts[1]>> \o LongTexts(Tail(texts))
         ELSE LongTexts(Tail(texts))

\* `if addr_candidates and not out["address"]`
AddressField(o, addr_candidates) ==
    IF Len(addr_candidates) > 0 /\ ~Truthy(o["address"])
    THEN [o EXCEPT !["address"] = addr_candidates[1]]
    ELSE o

\* ZIP_RE matches at i
ZipAt(s, i) ==
    /\ i + 4 <= Len(s)
    /\ \A j \in i..(i + 4) : s[j] \in DigitChars
    /\ (i = 1 \/ s[i - 1] \notin WordChars)
    /\ (i + 4 = Len(s) \/ s[i + 5] \notin WordChars)

\* `if out["address"] and not out["zipcode"]`: ZIP_RE.search(out["address"])
ZipField(o) ==
    IF Truthy(o["address"]) /\ ~Truthy(o["zipcode"])
       /\ \E i \in 1..Len(o["address"]) : ZipAt(o["address"], i)
    THEN [o EXCEPT !["zipcode"] =
            SubSeq(o["address"],
                   CHOOSE i \in 1..Len(o["address"]) :
                      /\ ZipAt(o["address"], i)
                      /\ \A j \in 1..(i - 1) : ~ZipAt(o["address"], j),
                   4 + CHOOSE i \in 1..Len(o["address"]) :
                      /\ ZipAt(o["address"], i)
                      /\ \A j \in 1..(i - 1) : ~ZipAt(o["address"], j))]
    ELSE o

\* The items of texts longer than n characters, as a list of strings
RECURSIVE LongerThan(_, _)
LongerThan(texts, n) ==
    IF Len(texts) = 0 THEN <<>>
    ELSE IF Truthy(texts[1]) /\ Len(texts[1]) > n
         THEN texts[1] \o <<ListEnd>> \o LongerThan(Tail(texts), n)
         ELSE LongerThan(Tail(texts), n)

\* What one heading about services adds to `services`
ServicesOf(heading) ==
    IF heading.list.kind = "list" THEN LongerThan(heading.list.items, 2)
    ELSE LongerThan(SubSeq(heading.paragraphs, 1,
                           IF Len(heading.paragraphs) < 5 THEN Len(heading.paragraphs) ELSE 5),
                    5)

Service == <<"s","e","r","v","i","c","e">>

\* `for header in soup.find_all(["h1", "h2", "h3", "h4"])` from the first
\* heading on; it breaks once services is non-empty
RECURSIVE ServicesLoop(_)
ServicesLoop(headings) ==
    IF Len(headings) = 0 THEN <<>>
    ELSE IF Contains(Lower(Or(headings[1].text, <<>>)), Service)
            /\ ServicesOf(headings[1]) # <<>>
         THEN ServicesOf(headings[1])
         ELSE ServicesLoop(Tail(headings))

\* `if services: out["services"] = services`
ServicesField(o, services) ==
    IF services # <<>> THEN [o EXCEPT !["services"] = services] ELSE o

\* soup.title.string.strip() if soup.title and soup.title.string else None
TitleText(title) == IF Truthy(title) THEN Strip(title) ELSE None

\* extract_from_html(url, html_text)
extract_from_html(url, html) ==
    ServicesField(
        ZipField(AddressField(
            LinkLoop(LdLoop(OutDefaults(normalize_url(url),
                                        clean_business_name(TitleText(html.title), url)),
                            extract_json_ld(html.scripts)),
                     html.hrefs),
            LongTexts(html.address_tags) \o LongTexts(html.address_attrs))),
        ServicesLoop(html.headings))

-----------------------------------------------------------------------------
(* clean_results, filter_relevant, extract_components, the fetchers        *)

\* clean_results from `for r in results` on, `seen` and `cleaned` so far
RECURSIVE CleanFrom(_, _, _)
CleanFrom(found, seen, cleaned) ==
    IF Len(found) = 0 THEN cleaned
    ELSE IF Truthy(normalize_url(found[1].link)) /\ normalize_url(found[1].link) \notin seen
         THEN CleanFrom(Tail(found), seen \cup {normalize_url(found[1].link)},
                        Append(cleaned, found[1]))
         ELSE CleanFrom(Tail(found), seen, cleaned)

clean_results(search) == CleanFrom(search, {}, <<>>)

\* The default keywords of filter_relevant
DefaultKeywords == {<<"c","a","r","e">>, <<"p","o","s","t","p","a","r","t","u","m">>, <<"b","a","b","y">>, <<"m","o","t","h","e","r">>, <<"c","o","n","f","i","n","e","m","e","n","t">>}

\* any(kw in title or kw in snippet for kw in lowered)
IsRelevant(title, snippet, lowered) ==
    \E kw \in lowered : Contains(title, kw) \/ Contains(snippet, kw)

\* filter_relevant(results, keywords), the keywords lower-cased
RECURSIVE filter_relevant(_, _)
filter_relevant(cleaned, lowered) ==
    IF Len(cleaned) = 0 THEN <<>>
    ELSE IF IsRelevant(Lower(Or(cleaned[1].title, <<>>)), Lower(Or(cleaned[1].snippet, <<>>)),
                       lowered)
         THEN <<cleaned[1]>> \o filter_relevant(Tail(cleaned), lowered)
         ELSE filter_relevant(Tail(cleaned), lowered)

NoComponents == [city |-> None, state |-> None, country |-> None, zipcode |-> None]

\* A fold that keeps the first text of each label
ComponentKeepFirst(comps, text, label) ==
    IF label = "city" /\ comps.city = None THEN [comps EXCEPT !.city = text]
    ELSE IF label = "state" /\ comps.state = None THEN [comps EXCEPT !.state = text]
    ELSE IF label = "country" /\ comps.country = None THEN [comps EXCEPT !.country = text]
    ELSE IF label = "postcode" /\ comps.zipcode = None THEN [comps EXCEPT !.zipcode = text]
    ELSE comps

\* The body of `for text, label in address_pairs`
ComponentOf(comps, text, label) ==
    IF label = "city" THEN [comps EXCEPT !.city = text]
    ELSE IF label = "state" THEN [comps EXCEPT !.state = text]
    ELSE IF label = "country" THEN [comps EXCEPT !.country = text]
    ELSE IF label = "postcode" THEN [comps EXCEPT !.zipcode = text]
    ELSE comps

RECURSIVE ComponentsFrom(_, _)
ComponentsFrom(comps, address_pairs) ==
    IF Len(address_pairs) = 0 THEN comps
    ELSE ComponentsFrom(ComponentOf(comps, address_pairs[1][1], address_pairs[1][2]),
                        Tail(address_pairs))

\* extract_components(address_pairs)
extract_components(address_pairs) == ComponentsFrom(NoComponents, address_pairs)

\* postal's parse_address on the addresses of the places below: the
\* (text, label) pairs of an address, none for any other text
parse_address(address) ==
    IF address = AddressA
    THEN << <<<<"1">>, "house_number">>, <<<<"j","a","l","a","n"," ","a">>, "road">>, <<<<"5","0","4","5","0">>, "postcode">>,
            <<<<"k","l">>, "city">> >>
    ELSE IF address = AddressN
    THEN << <<<<"9">>, "house_number">>, <<<<"j","a","l","a","n"," ","n">>, "road">>, <<<<"i","p","o","h">>, "city">>,
            <<<<"p","e","r","a","k">>, "state">> >>
    ELSE <<>>

\* No page: the None a fetcher returns
NoHtml ==
    [kind |-> "none", title |-> None, scripts |-> <<>>, hrefs |-> <<>>,
     address_tags |-> <<>>, address_attrs |-> <<>>, headings |-> <<>>]

\* What session.get meets: an exception, or a response
FetchError == [kind |-> "error", status_code |-> 0, text |-> EmptyText]
Response(status_code, text) == [kind |-> "response", status_code |-> status_code, text |-> text]

\* `if 200 <= resp.status_code < 400 and resp.text: return resp.text`,
\* else None
TextOf(resp) ==
    IF resp.kind = "response" /\ 200 <= resp.status_code /\ resp.status_code < 400
       /\ resp.text.kind = "html"
    THEN resp.text
    ELSE NoHtml

\* fetch_html_via_scrapingdog
fetch_html_via_scrapingdog(api_key, resp) == IF ~Truthy(api_key) THEN NoHtml ELSE TextOf(resp)

\* fetch_html_direct
fetch_html_direct(resp) == TextOf(resp)

\* html_text of scrape_businesses for a candidate with a website
FetchBy(mode, api_key, api_resp, direct_resp) ==
    IF mode = "api" THEN fetch_html_via_scrapingdog(api_key, api_resp)
    ELSE IF mode = "direct" THEN fetch_html_direct(direct_resp)
    ELSE IF fetch_html_via_scrapingdog(api_key, api_resp).kind = "html"
         THEN fetch_html_via_scrapingdog(api_key, api_resp)
         ELSE fetch_html_direct(direct_resp)

-----------------------------------------------------------------------------
(* scrape_businesses                                                       *)

\* A local that may not be bound yet
Unbound == [bound |-> FALSE, value |-> None]
Bound(v) == [bound |-> TRUE, value |-> v]

\* The fields scrape_businesses reads of a place
NameOf(res) == Or(res.name, res.title)
AddressOf(res) == Or(res.formatted_address, res.address)
PhoneOf(res) == Or(res.phone, res.phone_number)
WebsiteOf(res) == Or(Or(Or(res.website, res.website_url), res.link), None)
TypesOf(res) == Or(Or(res.types, res.type), None)

\* comps of scrape_businesses
CompsOf(address) ==
    IF Truthy(address) /\ Len(parse_address(address)) > 0
    THEN extract_components(parse_address(address))
    ELSE NoComponents

IndexFromZero(position) == position - 1

\* enumerate(filtered_tagged, start=1): the idx of the item at a position
\* (counted from 1)
IndexOf(position) == position

\* `if search_clean and len(search_clean) > 0: search_filtered = ...`
FilteredAfter(filtered, search_clean) ==
    IF Len(search_clean) > 0 THEN Bound(filter_relevant(search_clean, DefaultKeywords))
    ELSE filtered

\* `if search_filtered and len(search_filtered) > 0 and website_field is None`
UsesSearch(filtered, website_field) == Len(filtered.value) > 0 /\ website_field = None

\* link after that `if`
LinkAfter(old, filtered, website_field) ==
    IF UsesSearch(filtered, website_field) THEN Bound(filtered.value[1].link) ELSE old

\* snippet after that `if`
SnippetAfter(filtered, website_field) ==
    IF UsesSearch(filtered, website_field) THEN filtered.value[1].snippet ELSE None

\* `website_field or link if 'link' in locals() else None`
UrlOf(website_field, bound_link) ==
    IF bound_link.bound THEN Or(website_field, bound_link.value) ELSE None

\* record = {...}
Record(id, business_name, url, snippet, address, comps, website_field, phone, services) ==
    [k \in MergeKeySet \cup UnmergedKeys |->
        IF k = "id" THEN id
        ELSE IF k \in {"business_name", "center_name"} THEN business_name
        ELSE IF k = "url" THEN url
        ELSE IF k = "snippet" THEN snippet
        ELSE IF k = "address" THEN address
        ELSE IF k = "city" THEN comps.city
        ELSE IF k = "state" THEN Or(comps.state, comps.city)
        ELSE IF k = "country" THEN Or(Or(comps.country, comps.state), comps.city)
        ELSE IF k = "zipcode" THEN comps.zipcode
        ELSE IF k = "website"
             THEN (IF Truthy(website_field) THEN normalize_url(website_field) ELSE None)
        ELSE IF k = "phone" THEN phone
        ELSE IF k = "services" THEN services
        ELSE None]

\* The record of the candidate res
RecordOf(id, res, website_field, filtered, bound_link) ==
    Record(id, clean_business_name(NameOf(res), website_field),
           UrlOf(website_field, bound_link), SnippetAfter(filtered, website_field),
           AddressOf(res), CompsOf(AddressOf(res)), website_field, PhoneOf(res),
           TypesOf(res))

\* What get_lat_lng meets: an exception, no match, or a match
GeoError == [kind |-> "error", lat |-> 0, lon |-> 0]
GeoEmpty == [kind |-> "empty", lat |-> 0, lon |-> 0]
GeoHit(lat, lon) == [kind |-> "hit", lat |-> lat, lon |-> lon]

\* ll_param: get_lat_lng(place, GEO_MAP_API), "" when it raises
LlParam(geo) == IF geo.kind = "hit" THEN Anchor(geo.lat, geo.lon) ELSE <<>>

GeoOutcomes == {GeoError, GeoEmpty, GeoHit(7, 8)}

LdAcme ==
    LdObject(<<"A","c","m","e"," ","L","t","d">>, LdAddress(<<"1"," ","M","a","i","n"," ","S","t">>, <<"I","p","o","h">>, None, <<"M","Y">>, None), <<"1","1","1">>, None,
             SameAsList(<<FbOne>>), <<"a","@","o","n","e",".","c","o","m">>, GraphNone, Absent)
LdAcmeBranch ==
    LdObject(None, LdAddress(<<"2"," ","S","i","d","e"," ","R","d">>, None, <<"P","e","r","a","k">>, None, <<"3","0","0","0","0">>), <<" ","2","2","2"," ">>, None,
             SameAsStr(FbTwo), None, GraphNone, NotADict)

PageAcme ==
    HtmlPage(<<" ","A","c","m","e"," ","C","a","r","e"," ","|"," ","H","o","m","e"," ">>, <<ScriptInvalid, ScriptList(<<LdAcme, LdAcmeBranch>>)>>,
             <<<<" ","h","t","t","p","s",":","/","/","w","a",".","m","e","/","6","0","1","2","3"," ">>, IgOne>>, <<<<"1"," ","J","a","l","a","n"," ","A",","," ","5","0","4","5","0"," ","K","L">>>>, <<>>,
             <<Heading(<<"O","u","r"," ","S","e","r","v","i","c","e","s">>, ListOf(<<<<"M","a","s","s","a","g","e">>, <<"S","p","a">>>>), <<>>)>>)
PageMoved == HtmlPage(<<"M","o","v","e","d">>, <<>>, <<FbTwo>>, <<>>, <<>>, <<>>)
PageMissing == HtmlPage(<<"N","o","t"," ","f","o","u","n","d">>, <<>>, <<>>, <<>>, <<>>, <<>>)

FetchResponses ==
    { FetchError, Response(200, PageAcme), Response(200, EmptyText),
      Response(302, PageMoved), Response(404, PageMissing) }

pipeArgs == <<query_arg, source, fetch, page_count>>
loopLocals == <<idx, search_filtered, link_local, all_data>>

PipeIdle ==
    /\ p_pc = "idle" /\ query_arg = <<>> /\ source = "" /\ fetch = ""
    /\ page_count = 0 /\ idx = 0 /\ search_filtered = Unbound /\ link_local = Unbound
    /\ all_data = <<>> /\ raised = ""

\* scrape_businesses(query, fetch=..., source=..., page=...) is called
PipeInit ==
    /\ p_pc = "start"
    /\ API_KEY \in ApiKeys
    /\ query_arg \in {<<>>, <<"c","a","r","e"," ","k","l">>}
    /\ source \in {"all", "search"}
    /\ fetch \in {"api", "direct", "auto"}
    /\ page_count \in 0..MaxPages
    /\ idx = 0 /\ search_filtered = Unbound /\ link_local = Unbound
    /\ all_data = <<>> /\ raised = ""
    /\ MapsIdle /\ SearchIdle

\* scrape_businesses up to the call of get_all_google_maps_results: the two
\* guards, then for the source "maps" the geocoding of the query (the place
\* asked for does not matter to what follows) and the call with
\* ll=ll_param or ll, max_pages=page or 0
Start ==
    /\ p_pc = "start"
    /\ IF ~Truthy(API_KEY) \/ ~Truthy(query_arg)
       THEN /\ p_pc' = "done"
            /\ UNCHANGED <<g_pc, mapsLocals, dedupVars>>
       ELSE IF source \in {"all", "maps"}
       THEN /\ \E geo \in GeoOutcomes :
                  /\ initial_ll' = Or(LlParam(geo), DefaultLl)
                  /\ ll' = Or(LlParam(geo), DefaultLl)
            /\ max_pages' = page_count
            /\ page' = 0
            /\ all_results' = <<>>
            /\ g_pc' = "page"
            /\ p_pc' = "maps"
            /\ UNCHANGED dedupVars
       ELSE /\ combined_tagged' = <<>>
            /\ d_pc' = "dedupe" /\ d_i' = 1 /\ seen_urls' = {} /\ filtered_tagged' = <<>>
            /\ p_pc' = "dedupe"
            /\ UNCHANGED <<g_pc, mapsLocals>>
    /\ UNCHANGED <<API_KEY, results, mapsLog, m_responses, searchVars>>
    /\ UNCHANGED <<pipeArgs, loopLocals, raised>>
    /\ UNCHANGED harnessVars

\* `for item in maps_raw: combined_tagged.append(("maps", item))`, and the
\* dedupe loop is entered
MapsCollected ==
    /\ p_pc = "maps"
    /\ g_pc = "returned"
    /\ combined_tagged' = [i \in 1..Len(all_results) |-> <<"maps", all_results[i]>>]
    /\ d_pc' = "dedupe" /\ d_i' = 1 /\ seen_urls' = {} /\ filtered_tagged' = <<>>
    /\ g_pc' = "idle" /\ initial_ll' = <<>> /\ ll' = <<>> /\ page' = 0 /\ max_pages' = 0
    /\ all_results' = <<>> /\ results' = <<>>
    /\ maps_requests' = <<>> /\ maps_returns' = <<>>
    /\ p_pc' = "dedupe"
    /\ UNCHANGED <<API_KEY, m_responses, searchVars>>
    /\ UNCHANGED <<pipeArgs, loopLocals, raised>>
    /\ UNCHANGED harnessVars

\* all_data = [] and the loop over filtered_tagged is entered
LoopStart ==
    /\ p_pc = "dedupe"
    /\ d_pc = "deduped"
    /\ all_data' = <<>>
    /\ idx' = 1
    /\ p_pc' = "loop"
    /\ UNCHANGED <<pipeArgs, search_filtered, link_local, raised>>
    /\ UNCHANGED <<provVars, dedupVars, harnessVars>>

\* The next candidate: its fields are read and get_google_search_results is
\* called
NextCandidate ==
    /\ p_pc = "loop"
    /\ idx <= Len(filtered_tagged)
    /\ s_pc' = "attempt" /\ s_responses' = <<>> /\ search_results' = <<>>
    /\ p_pc' = "search"
    /\ UNCHANGED <<API_KEY, g_pc, mapsLocals, results, mapsLog, m_responses>>
    /\ UNCHANGED <<pipeArgs, loopLocals, raised>>
    /\ UNCHANGED <<dedupVars, harnessVars>>

\* From clean_results(search_results) to the record: reading
\* search_filtered before any assignment raises UnboundLocalError
BuildRecordOf(res, filtered) ==
    IF ~filtered.bound
    THEN /\ raised' = "UnboundLocalError"
         /\ p_pc' = "raised"
         /\ UNCHANGED <<search_filtered, link_local, mergeVars>>
    ELSE /\ \E bound_link \in {LinkAfter(link_local, filtered, WebsiteOf(res))} :
               /\ link_local' = bound_link
               /\ \E record \in {RecordOf(IndexOf(idx), res, WebsiteOf(res), filtered,
                                          bound_link)} :
                     m_record' = record /\ m_base' = record
         /\ search_filtered' = filtered
         /\ m_pc' = "record"
         /\ p_pc' = "fetch"
         /\ UNCHANGED <<m_enrich, raised>>

BuildRecord ==
    /\ p_pc = "search"
    /\ s_pc = "returned"
    /\ BuildRecordOf(filtered_tagged[idx][2],
                     FilteredAfter(search_filtered, clean_results(search_results)))
    /\ s_pc' = "idle" /\ s_responses' = <<>> /\ search_results' = <<>>
    /\ UNCHANGED <<API_KEY, g_pc, mapsLocals, results, mapsLog, m_responses>>
    /\ UNCHANGED <<pipeArgs, idx, all_data>>
    /\ UNCHANGED <<dedupVars, normVars, jsonLdVars, fnVars>>

\* The website of the candidate is fetched and, if there is a page,
\* extract_from_html reads it
FetchOf(website_field, html_text) ==
    IF html_text.kind = "html"
    THEN m_enrich' = extract_from_html(website_field, html_text) /\ m_pc' = "merge"
    ELSE UNCHANGED <<m_enrich, m_pc>>

Fetch ==
    /\ p_pc = "fetch"
    /\ \E api_resp \in FetchResponses, direct_resp \in FetchResponses :
          FetchOf(WebsiteOf(filtered_tagged[idx][2]),
                  IF Truthy(WebsiteOf(filtered_tagged[idx][2]))
                  THEN FetchBy(fetch, API_KEY, api_resp, direct_resp)
                  ELSE NoHtml)
    /\ p_pc' = "enrich"
    /\ UNCHANGED <<m_base, m_record>>
    /\ UNCHANGED <<pipeArgs, loopLocals, raised>>
    /\ UNCHANGED <<provVars, dedupVars, normVars, jsonLdVars, fnVars>>

\* all_data.append(record)
AppendRecord ==
    /\ p_pc = "enrich"
    /\ m_pc \in {"record", "merged"}
    /\ all_data' = Append(all_data, m_record)
    /\ idx' = idx + 1
    /\ m_pc' = "idle" /\ m_base' = None /\ m_record' = None /\ m_enrich' = None
    /\ p_pc' = "loop"
    /\ UNCHANGED <<pipeArgs, search_filtered, link_local, raised>>
    /\ UNCHANGED <<provVars, dedupVars, normVars, jsonLdVars, fnVars>>

\* return all_data
Return ==
    /\ p_pc = "loop"
    /\ idx > Len(filtered_tagged)
    /\ p_pc' = "done"
    /\ UNCHANGED <<pipeArgs, loopLocals, raised>>
    /\ UNCHANGED <<provVars, dedupVars, harnessVars>>

\* C8: when the search provider has returned an empty result for a
\* candidate, the first one included, scrape_businesses does not raise: it
\* goes on to build the record of that candidate.
SearchEmptyNeverFatal ==
    [][(p_pc = "search" /\ s_pc = "returned" /\ search_results = <<>>)
          => (p_pc' = "fetch" /\ raised' = "")]_vars

\* C10: the output holds one record per candidate that survived the dedupe,
\* in the candidates' order, and the i-th record has id i: the ids of a run
\* are 1..n.
OneRecordPerCandidate ==
    /\ Len(all_data) <= Len(filtered_tagged)
    /\ \A i \in 1..Len(all_data) :
          /\ all_data[i]["id"] = i
          /\ all_data[i]["business_name"] =
                clean_business_name(NameOf(filtered_tagged[i][2]),
                                    WebsiteOf(filtered_tagged[i][2]))
          /\ Truthy(AddressOf(filtered_tagged[i][2])) =>
                all_data[i]["address"] = AddressOf(filtered_tagged[i][2])
    /\ (p_pc = "done" /\ d_pc = "deduped") => Len(all_data) = Len(filtered_tagged)

\* A run has returned three records for four discovered places, the third
\* record with id 3
ThreeRecordsOfFour ==
    /\ p_pc = "done"
    /\ Len(combined_tagged) = 4
    /\ Len(filtered_tagged) = 3
    /\ Len(all_data) = 3
    /\ all_data[3]["id"] = 3
    /\ all_data[1]["business_name"] # all_data[2]["business_name"]

\* The url of a record by its candidate alone: the website the provider
\* supplied, else the link of the first relevant result of the search made
\* for this candidate, else null
UrlOfCandidate(website_field, relevant) ==
    IF Truthy(website_field) THEN website_field
    ELSE IF Len(relevant) > 0 THEN relevant[1].link
    ELSE None

\* C15: the url of every emitted record is the candidate's website when the
\* provider supplied one, otherwise the link of the first relevant result of
\* the search made for that candidate in that iteration, otherwise null; it
\* never depends on what an earlier candidate left behind.
UrlFromOwnCandidate ==
    [][(p_pc = "search" /\ p_pc' = "fetch")
           => m_record'["url"] =
                  UrlOfCandidate(WebsiteOf(filtered_tagged[idx][2]),
                                 filter_relevant(clean_results(search_results),
                                                 DefaultKeywords))]_vars

-----------------------------------------------------------------------------
(* The functions called on their own                                      *)

FetchIdle == f_pc = "idle" /\ f_fn = "" /\ f_resp = FetchError /\ f_text = NoHtml

CompIdle == c_pc = "idle" /\ c_pairs = <<>> /\ c_out = NoComponents

NameIdle == t_pc = "idle" /\ t_title = None /\ t_url = None /\ t_name = None

FnIdle == FetchIdle /\ CompIdle /\ NameIdle

-----------------------------------------------------------------------------
(* fetch_html_via_scrapingdog and fetch_html_direct called on their own    *)

notFetch ==
    <<normVars, dedupVars, mergeVars, jsonLdVars, provVars, pipeVars, compVars, nameVars>>

FetchStatuses == {199, 200, 204, 299, 300, 301, 302, 304, 399, 400, 404, 500}

\* What the session.get of a fetcher may meet
FetchOutcomes ==
    {FetchError} \cup
    {Response(status, body) : status \in FetchStatuses,
                              body \in {EmptyText, PageAcme, PageMoved}}

\* A fetcher is called; API_KEY is set or not
FetchInit ==
    /\ f_pc = "call"
    /\ f_fn \in {"fetch_html_via_scrapingdog", "fetch_html_direct"}
    /\ f_resp \in FetchOutcomes
    /\ f_text = NoHtml
    /\ API_KEY \in ApiKeys
    /\ MapsIdle /\ SearchIdle

\* fetch_html_via_scrapingdog(session, target_url) runs
FetchViaScrapingdog ==
    /\ f_pc = "call"
    /\ f_fn = "fetch_html_via_scrapingdog"
    /\ f_text' = fetch_html_via_scrapingdog(API_KEY, f_resp)
    /\ f_pc' = "returned"
    /\ UNCHANGED <<f_fn, f_resp>>
    /\ UNCHANGED notFetch

\* fetch_html_direct(session, url) runs
FetchDirect ==
    /\ f_pc = "call"
    /\ f_fn = "fetch_html_direct"
    /\ f_text' = fetch_html_direct(f_resp)
    /\ f_pc' = "returned"
    /\ UNCHANGED <<f_fn, f_resp>>
    /\ UNCHANGED notFetch

\* The response has a status in the 2xx range and a non-empty body
IsGoodResponse(resp) ==
    /\ resp.kind = "response"
    /\ 200 <= resp.status_code /\ resp.status_code <= 299
    /\ resp.text.kind = "html"

\* C11: a fetcher returns the page text only for a response with a status in
\* the 2xx range and a non-empty body, and then it returns that body; for any
\* other status (3xx included), an empty body or an exception it returns null.
FetchOnlyOn2xx ==
    f_pc = "returned" =>
        /\ f_text # NoHtml => (IsGoodResponse(f_resp) /\ f_text = f_resp.text)
        /\ ~IsGoodResponse(f_resp) => f_text = NoHtml

-----------------------------------------------------------------------------
(* extract_components called on its own                                    *)

notComp ==
    <<normVars, dedupVars, mergeVars, jsonLdVars, provVars, pipeVars, fetchVars, nameVars>>

\* The most pairs of an address
MaxPairs == 3

\* The labels of the pairs: the four the function reads, and two it does not
PairLabels == {"city", "state", "country", "postcode", "road", "zipcode"}

PairTexts == {<<"k","l">>, <<"i","p","o","h">>}

AddressPairs == {<<text, label>> : text \in PairTexts, label \in PairLabels}

CompInit ==
    /\ c_pc = "call"
    /\ c_pairs \in SeqsUpTo(AddressPairs, MaxPairs)
    /\ c_out = NoComponents

\* extract_components(address_pairs) runs
ExtractComponents ==
    /\ c_pc = "call"
    /\ c_out' = extract_components(c_pairs)
    /\ c_pc' = "returned"
    /\ UNCHANGED c_pairs
    /\ UNCHANGED notComp

\* The positions of the pairs with a label
Labelled(pairs, label) == {i \in 1..Len(pairs) : pairs[i][2] = label}

\* The text of the last pair with a label, null when there is none
LastLabelled(pairs, label) ==
    IF Labelled(pairs, label) = {} THEN None
    ELSE pairs[CHOOSE i \in Labelled(pairs, label) :
                   \A j \in Labelled(pairs, label) : j <= i][1]

\* The pairs whose label is one of the four the result is made of
Recognised(pairs) ==
    SelectSeq(pairs, LAMBDA p : p[2] \in {"city", "state", "country", "postcode"})

\* C13: extract_components is a last-write-wins fold: each of city, state,
\* country and zipcode is the text of the last pair labelled city, state,
\* country and postcode, null when no pair has that label, and the pairs with
\* any other label do not change the result.
LastWriteWins ==
    c_pc = "returned" =>
        /\ c_out = [city |-> LastLabelled(c_pairs, "city"),
                    state |-> LastLabelled(c_pairs, "state"),
                    country |-> LastLabelled(c_pairs, "country"),
                    zipcode |-> LastLabelled(c_pairs, "postcode")]
        /\ c_out = [city |-> LastLabelled(Recognised(c_pairs), "city"),
                    state |-> LastLabelled(Recognised(c_pairs), "state"),
                    country |-> LastLabelled(Recognised(c_pairs), "country"),
                    zipcode |-> LastLabelled(Recognised(c_pairs), "postcode")]

\* Two pairs labelled city with different texts and a pair with a label the
\* function does not read: the city is the later text, the zipcode is null
LaterCityWon ==
    /\ c_pc = "returned"
    /\ \E i, j \in 1..Len(c_pairs) :
          /\ i < j
          /\ c_pairs[i][2] = "city" /\ c_pairs[j][2] = "city"
          /\ c_pairs[i][1] # c_pairs[j][1]
          /\ c_out.city = c_pairs[j][1]
    /\ \E k \in 1..Len(c_pairs) : c_pairs[k][2] = "zipcode"
    /\ c_out.zipcode = None

-----------------------------------------------------------------------------
(* clean_business_name called on its own                                   *)

notName ==
    <<normVars, dedupVars, mergeVars, jsonLdVars, provVars, pipeVars, fetchVars, compVars>>

\* Page titles: none, empty, with separators, generic, short, with a hyphen
\* or a bar inside a word, with an entity, with runs of blanks
PageTitles ==
    {None, <<>>,
     <<"A","c","m","e"," ","C","a","r","e"," ","-"," ","H","o","m","e"," ","|"," ","B","e","s","t"," ","i","n"," ","K","L">>,
     <<"A","c","m","e"," ","C","a","r","e">>,
     <<"H","o","m","e">>, <<"F","A","Q">>, <<" ","S","e","r","v","i","c","e","s"," ">>, <<"A","b">>,
     <<"W","a","l","-","M","a","r","t"," ","P","h","a","r","m","a","c","y">>,
     <<"M","o","t","h","e","r","|","B","a","b","y"," ","C","l","i","n","i","c">>,
     <<"A","c","m","e"," "," ","C","a","r","e"," "," "," ","K","L">>,
     <<"K","L"," ">> \o <<EnDash>> \o <<" ","C","a","r","e">>,
     <<"A","c","m","e"," ","C","a","r","e">> \o <<EnDash>> \o <<"H","o","m","e">>,
     <<"T","o","m"," ","&","a","m","p",";"," ","C","o"," ","|"," ","H","o","m","e">>}

PageUrls ==
    {None, <<"h","t","t","p","s",":","/","/","m","y","-","c","l","i","n","i","c",".","c","o","m">>, <<"h","t","t","p","s",":","/","/","w","w","w",".","a","c","m","e",".","c","o","m","/","a","b","o","u","t">>,
     <<"h","t","t","p",":","/","/","a",".","c","o","m">>, <<"m","y","-","c","l","i","n","i","c",".","c","o","m">>}

NameInit ==
    /\ t_pc = "call"
    /\ t_title \in PageTitles
    /\ t_url \in PageUrls
    /\ t_name = None

\* clean_business_name(title, url) runs
CleanBusinessName ==
    /\ t_pc = "call"
    /\ t_name' = clean_business_name(t_title, t_url)
    /\ t_pc' = "returned"
    /\ UNCHANGED <<t_title, t_url>>
    /\ UNCHANGED notName

\* The text before the first " - ", " | " or en dash
RECURSIVE BeforeSeparator(_)
BeforeSeparator(t) ==
    IF Len(t) = 0 THEN <<>>
    ELSE IF StartsWith(t, <<" ","-"," ">>) \/ StartsWith(t, <<" ","|"," ">>) \/ t[1] = EnDash THEN <<>>
    ELSE <<t[1]>> \o BeforeSeparator(Tail(t))

\* C14: clean_business_name splits the title only on " - ", " | " or the en
\* dash and keeps the left-most segment; when the trimmed segment is shorter
\* than 3 characters or is one of about, services, home, faq, contact in any
\* case it returns the name derived from the domain, otherwise the segment
\* with its runs of blanks collapsed.
SplitsOnSeparatorsOnly ==
    t_pc = "returned" =>
        t_name = IF ~Truthy(t_title) THEN domain_to_name(t_url)
                 ELSE NameOrDomain(Strip(BeforeSeparator(unescape(t_title))), t_url)

-----------------------------------------------------------------------------
(* Specifications                                                          *)

NormNext == NormalizeUrl \/ NormalizeAgain \/ NormalizeAlt

NormStart ==
    NormInit /\ DedupIdle /\ MergeIdle /\ JsonLdIdle /\ ProvIdle /\ PipeIdle /\ FnIdle

SpecNormalize == NormStart /\ [][NormNext]_vars

DedupNext == DedupeStep \/ DedupeEnd

DedupStart ==
    DedupInit /\ NormIdle /\ MergeIdle /\ JsonLdIdle /\ ProvIdle /\ PipeIdle /\ FnIdle

SpecDedup == DedupStart /\ [][DedupNext]_vars

MergeStart ==
    MergeInit /\ NormIdle /\ DedupIdle /\ JsonLdIdle /\ ProvIdle /\ PipeIdle /\ FnIdle

MergeNext == Merge

SpecMerge == MergeStart /\ [][MergeNext]_vars

JsonLdStart ==
    JsonLdInit /\ NormIdle /\ DedupIdle /\ MergeIdle /\ ProvIdle /\ PipeIdle /\ FnIdle

JsonLdNext == JsonLdStep \/ JsonLdEnd

SpecJsonLd == JsonLdStart /\ [][JsonLdNext]_vars

ProvStart ==
    ProvInit /\ NormIdle /\ DedupIdle /\ MergeIdle /\ JsonLdIdle /\ PipeIdle /\ FnIdle

ProvNext == MapsCall \/ MapsAttempt \/ PageDone \/ GetAllReturn \/ SearchAttempt

SpecProviders == ProvStart /\ [][ProvNext]_vars

PipeStart ==
    PipeInit /\ NormIdle /\ DedupIdle /\ MergeIdle /\ JsonLdIdle /\ FnIdle

PipeNext ==
    \/ Start \/ MapsCall \/ MapsAttempt \/ PageDone \/ GetAllReturn \/ MapsCollected
    \/ DedupeStep \/ DedupeEnd \/ LoopStart \/ NextCandidate \/ SearchAttempt
    \/ BuildRecord \/ Fetch \/ Merge \/ AppendRecord \/ Return

SpecPipeline == PipeStart /\ [][PipeNext]_vars

FetchStart ==
    FetchInit /\ NormIdle /\ DedupIdle /\ MergeIdle /\ JsonLdIdle /\ PipeIdle /\ CompIdle /\ NameIdle

FetchNext == FetchViaScrapingdog \/ FetchDirect

SpecFetch == FetchStart /\ [][FetchNext]_vars

CompStart ==
    CompInit /\ NormIdle /\ DedupIdle /\ MergeIdle /\ JsonLdIdle /\ ProvIdle /\ PipeIdle /\ FetchIdle /\ NameIdle

SpecComponents == CompStart /\ [][ExtractComponents]_vars

NameStart ==
    NameInit /\ NormIdle /\ DedupIdle /\ MergeIdle /\ JsonLdIdle /\ ProvIdle /\ PipeIdle /\ FetchIdle /\ CompIdle

SpecName == NameStart /\ [][CleanBusinessName]_vars

====
